---- MODULE Spec2Model ----
(***************************************************************************)
(* A model of the grantlab content pipeline: the Content Normalizer        *)
(* (_post_process_content), the section generation and refinement loops    *)
(* of GrantApplicationGenerator, and the Chunker (get_chunked_content).    *)
(*                                                                         *)
(* Texts are sequences of characters; a character is a one-character       *)
(* string (the bullet glyph U+2022 is written Bullet).                     *)
(***************************************************************************)
EXTENDS Integers, Sequences, FiniteSets, TLC

VARIABLES
    \* Content Normalizer, run on a raw text and again on its own output
    npc,        \* "input", "once", "twice"
    nText,      \* the raw text handed to _post_process_content
    nOut,       \* _post_process_content(nText)
    nOut2,      \* _post_process_content(nOut)
    nPass,      \* "all", or the one pass of _post_process_content that is run
    \* GrantApplicationGenerator and the GrantVectorStore it queries
    gpc,        \* "idle", "examples", "voice", "chat", "returned", "raised",
                \* "refine_chat", "refined"
    opp,        \* grant_opportunity: a dict, some of its keys possibly missing
    requested,  \* the sections_needed argument (absent, or a list)
    collection, \* the node texts held by the "grant_documents" collection
    sections,   \* sections_needed after the default was applied
    idx,        \* the loop position in sections (or in application.items())
    application, \* application_sections: the dict generate_application builds
    refined,    \* refined_application: the dict refine_application builds
    feedback,   \* the feedback argument of refine_application
    examples,   \* relevant_examples of the section being generated
    voice,      \* org_voice of the section being generated
    messages,   \* the chat messages composed for the pending llm.chat call
    lastSearch, \* the latest search_similar call made for the section being
                \* generated: top_k, whether an index was obtained, the outcome
    llmCalls,   \* every llm.chat call so far, with what the backend answered
    gError,     \* what made the call raise: "none", "retrieval", "generation"
    \* GrantDocumentProcessor.get_chunked_content
    cpc,        \* "loop", "returned", "raised"
    chunkSize,  \* the chunk_size argument
    documents,  \* the documents argument, as far as the loops have read it
    chunks,     \* the local list chunks
    \* GrantDocumentProcessor._parse_grant_document
    ppc,        \* "input", "parsed"
    pFilename,  \* the filename argument
    pContent,   \* the content argument
    pDoc,       \* the document returned
    \* GrantDocumentProcessor.load_grant_documents
    lpc,        \* "loop", "returned", "raised"
    listing,    \* the files glob("*.txt") has yielded so far
    loaded,     \* the local list documents
    \* GrantDiscoveryEngine.search_all_sources and filter_relevant_grants
    fpc,        \* "found", "filtered"
    allGrants,  \* all_grants: the records the sources returned
    relevantGrants, \* what filter_relevant_grants returned
    \* app.py: st.session_state over the script runs of one session
    upc,        \* "session"
    runs,       \* the script runs so far
    initialized,           \* 'initialized' in st.session_state
    constructed,           \* per component, how often its constructor returned
    init_failures,         \* the runs in which initialize_system caught an exception
    documents_processed,   \* 'documents_processed' in st.session_state
    processed_once,        \* load, chunk and index have completed in one run
    discovered_grants,     \* st.session_state.discovered_grants, if present
    stored_nonempty,       \* a search has stored a non-empty list
    generated_application, \* st.session_state.generated_application, if present
    appCall                \* what the last run asked of the generator

normVars == <<npc, nText, nOut, nOut2, nPass>>

chunkVars == <<cpc, chunkSize, documents, chunks>>

parseVars == <<ppc, pFilename, pContent, pDoc>>

loadVars == <<lpc, listing, loaded>>

filterVars == <<fpc, allGrants, relevantGrants>>

appVars == <<upc, runs, initialized, constructed, init_failures, documents_processed,
             processed_once, discovered_grants, stored_nonempty, generated_application,
             appCall>>

genVars == <<gpc, opp, requested, collection, sections, idx, application, refined,
             feedback, examples, voice, messages, lastSearch, llmCalls, gError>>

vars == <<npc, nText, nOut, nOut2, nPass,
          gpc, opp, requested, collection, sections, idx, application, refined,
          feedback, examples, voice, messages, lastSearch, llmCalls, gError,
          cpc, chunkSize, documents, chunks,
          ppc, pFilename, pContent, pDoc, lpc, listing, loaded,
          fpc, allGrants, relevantGrants,
          upc, runs, initialized, constructed, init_failures, documents_processed,
          processed_once, discovered_grants, stored_nonempty, generated_application,
          appCall>>

-----------------------------------------------------------------------------
(* Each specification exercises one component; the others stay as below.   *)

\* No search_similar call has been made for the section at hand.
NoSearch ==
    [called |-> FALSE, query |-> <<>>, top_k |-> 0, index |-> FALSE, raised |-> FALSE,
     results |-> <<>>]

\* The generator while another component is exercised.
GenOff ==
    /\ gpc = "off"
    /\ opp = [title |-> ""]
    /\ requested = [given |-> FALSE, list |-> <<>>]
    /\ collection = <<>>
    /\ sections = <<>>
    /\ idx = 0
    /\ application = <<>>
    /\ refined = <<>>
    /\ feedback = ""
    /\ examples = <<>>
    /\ voice = <<>>
    /\ messages = <<>>
    /\ lastSearch = NoSearch
    /\ llmCalls = <<>>
    /\ gError = "none"

\* The normalizer while another component is exercised.
NormOff ==
    /\ npc = "off"
    /\ nText = <<>>
    /\ nOut = <<>>
    /\ nOut2 = <<>>
    /\ nPass = "all"

\* The chunker while another component is exercised.
ChunkOff ==
    /\ cpc = "off"
    /\ chunkSize = 0
    /\ documents = <<>>
    /\ chunks = <<>>

\* No document has been parsed.
NoDocument ==
    [filename |-> <<>>, grant_type |-> "", sections |-> <<>>,
     organizational_voice |->
        [mission_phrases |-> <<>>, population_focus |-> <<>>, program_names |-> <<>>,
         impact_metrics |-> <<>>, values_language |-> <<>>], full_content |-> <<>>]

\* The parser while another component is exercised.
ParseOff ==
    /\ ppc = "off"
    /\ pFilename = <<>>
    /\ pContent = <<>>
    /\ pDoc = NoDocument

\* The loader while another component is exercised.
LoadOff ==
    /\ lpc = "off"
    /\ listing = <<>>
    /\ loaded = <<>>

\* The discovery engine while another component is exercised.
FilterOff ==
    /\ fpc = "off"
    /\ allGrants = <<>>
    /\ relevantGrants = <<>>

\* The user interface while another component is exercised.
AppOff ==
    /\ upc = "off"
    /\ runs = 0
    /\ initialized = FALSE
    /\ constructed = <<>>
    /\ init_failures = 0
    /\ documents_processed = FALSE
    /\ processed_once = FALSE
    /\ discovered_grants = <<>>
    /\ stored_nonempty = FALSE
    /\ generated_application = <<>>
    /\ appCall = <<>>

-----------------------------------------------------------------------------
(* Characters and the character classes the regular expressions use.       *)

Bullet == "<U+2022>"

\* Python's \s and str.strip(): the ASCII whitespace characters.
Whitespace == {" ", "\n", "\t", "\r", "\f"}

\* [-•]
BulletMarks == {"-", Bullet}

\* [,;:]
InnerPunct == {",", ";", ":"}

\* [.,;:!?]
AnyPunct == {".", ",", ";", ":", "!", "?"}

\* [.!?]
SentenceEnd == {".", "!", "?"}

\* \d
Digits == {"0", "1", "2", "3", "4", "5", "6", "7", "8", "9"}

\* [A-Z]
Capitals == {"A", "B", "C", "D", "E", "F", "G", "H", "I", "J", "K", "L", "M",
             "N", "O", "P", "Q", "R", "S", "T", "U", "V", "W", "X", "Y", "Z"}

\* The characters texts are drawn from: one or two of each class.
Alphabet == {" ", "\n", "\t", "*", "-", Bullet, ".", ",", ";", "!", "1", "A", "a"}

\* The longest raw text handed to the Content Normalizer.
MaxLen == 3

RECURSIVE SeqsUpTo(_, _)
SeqsUpTo(S, n) ==
    IF n = 0 THEN {<<>>}
    ELSE LET shorter == SeqsUpTo(S, n - 1)
         IN  shorter \cup {Append(t, c) : t \in {u \in shorter : Len(u) = n - 1}, c \in S}

Texts == SeqsUpTo(Alphabet, MaxLen)

-----------------------------------------------------------------------------
(* Regular-expression helpers: re.sub scans left to right and replaces the *)
(* leftmost non-overlapping matches.                                       *)

\* The first index j >= i with s[j] \notin C, or Len(s) + 1: the end of the
\* greedy run C* (or C+) that starts at i.
RECURSIVE RunEnd(_, _, _)
RunEnd(s, i, C) ==
    IF i <= Len(s) /\ s[i] \in C THEN RunEnd(s, i + 1, C) ELSE i

\* The same for the complemented class [^...]: the first index j >= i with
\* s[j] \in C, or Len(s) + 1.
RECURSIVE RunEndNot(_, _, _)
RunEndNot(s, i, C) ==
    IF i <= Len(s) /\ s[i] \notin C THEN RunEndNot(s, i + 1, C) ELSE i

\* s[i..j-1]
Slice(s, i, j) == SubSeq(s, i, j - 1)

\* The number of "\n" in s[i..j-1].
RECURSIVE CountNewlines(_, _, _)
CountNewlines(s, i, j) ==
    IF i >= j THEN 0
    ELSE (IF s[i] = "\n" THEN 1 ELSE 0) + CountNewlines(s, i + 1, j)

\* The index after the last "\n" of s[i..j-1] (i when there is none).
RECURSIVE AfterLastNewline(_, _, _)
AfterLastNewline(s, i, j) ==
    IF j <= i THEN i
    ELSE IF s[j - 1] = "\n" THEN j
    ELSE AfterLastNewline(s, i, j - 1)

-----------------------------------------------------------------------------
(* The passes of _post_process_content, in source order.                   *)

\* content.strip()
StripText(s) ==
    LET first == RunEnd(s, 1, Whitespace)
        RECURSIVE LastNonSpace(_)
        LastNonSpace(j) ==
            IF j >= 1 /\ s[j] \in Whitespace THEN LastNonSpace(j - 1) ELSE j
    IN  IF first > Len(s) THEN <<>> ELSE SubSeq(s, first, LastNonSpace(Len(s)))

\* re.sub(r'\*\*([^*]+)\*\*', r'\1', content)
RECURSIVE StripBoldFrom(_, _)
StripBoldFrom(s, i) ==
    IF i > Len(s) THEN <<>>
    ELSE LET inner == i + 2
             close == RunEndNot(s, inner, {"*"})
             hit   == /\ i + 1 <= Len(s) /\ s[i] = "*" /\ s[i + 1] = "*"
                      /\ close > inner
                      /\ close + 1 <= Len(s) /\ s[close] = "*" /\ s[close + 1] = "*"
         IN  IF hit THEN Slice(s, inner, close) \o StripBoldFrom(s, close + 2)
             ELSE <<s[i]>> \o StripBoldFrom(s, i + 1)

StripBold(s) == StripBoldFrom(s, 1)

\* re.sub(r'\*([^*]+)\*', r'\1', content)
RECURSIVE StripItalicFrom(_, _)
StripItalicFrom(s, i) ==
    IF i > Len(s) THEN <<>>
    ELSE LET inner == i + 1
             close == RunEndNot(s, inner, {"*"})
             hit   == /\ s[i] = "*"
                      /\ close > inner
                      /\ close <= Len(s) /\ s[close] = "*"
         IN  IF hit THEN Slice(s, inner, close) \o StripItalicFrom(s, close + 1)
             ELSE <<s[i]>> \o StripItalicFrom(s, i + 1)

StripItalic(s) == StripItalicFrom(s, 1)

\* re.sub(r'^\s*[-•]\s*', '', content, flags=re.MULTILINE)
RECURSIVE StripBulletsFrom(_, _)
StripBulletsFrom(s, i) ==
    IF i > Len(s) THEN <<>>
    ELSE LET lineStart == i = 1 \/ s[i - 1] = "\n"
             mark      == RunEnd(s, i, Whitespace)
             hit       == lineStart /\ mark <= Len(s) /\ s[mark] \in BulletMarks
         IN  IF hit THEN StripBulletsFrom(s, RunEnd(s, mark + 1, Whitespace))
             ELSE <<s[i]>> \o StripBulletsFrom(s, i + 1)

StripBullets(s) == StripBulletsFrom(s, 1)

\* re.sub(r'\n\s*\n\s*\n+', '\n\n', content): the match starts at a newline
\* and lies inside the whitespace run that starts there; it needs three
\* newlines and, \s* being greedy, ends after the last newline of the run.
RECURSIVE CollapseNewlinesFrom(_, _)
CollapseNewlinesFrom(s, i) ==
    IF i > Len(s) THEN <<>>
    ELSE LET run == RunEnd(s, i, Whitespace)
             hit == s[i] = "\n" /\ CountNewlines(s, i, run) >= 3
         IN  IF hit THEN <<"\n", "\n">> \o CollapseNewlinesFrom(s, AfterLastNewline(s, i, run))
             ELSE <<s[i]>> \o CollapseNewlinesFrom(s, i + 1)

CollapseNewlines(s) == CollapseNewlinesFrom(s, 1)

\* re.sub(r'cc+', 'c', content) for one character c
RECURSIVE CollapseRunsFrom(_, _, _)
CollapseRunsFrom(s, i, c) ==
    IF i > Len(s) THEN <<>>
    ELSE IF s[i] = c THEN <<c>> \o CollapseRunsFrom(s, RunEnd(s, i, {c}), c)
    ELSE <<s[i]>> \o CollapseRunsFrom(s, i + 1, c)

CollapseRuns(s, c) == CollapseRunsFrom(s, 1, c)

\* The body of `for _ in range(3)`
CollapseOnce(s) == CollapseRuns(CollapseRuns(CollapseRuns(CollapseRuns(s, "."), ","), "-"), " ")

\* for _ in range(3): periods, commas, hyphens, spaces
CollapsePunctuation(s) == CollapseOnce(CollapseOnce(CollapseOnce(s)))

\* re.sub(r'(\d)\.\s+(\d)', r'\1.\2', content)
RECURSIVE JoinDecimalsFrom(_, _)
JoinDecimalsFrom(s, i) ==
    IF i > Len(s) THEN <<>>
    ELSE LET gap == RunEnd(s, i + 2, Whitespace)
             hit == /\ s[i] \in Digits
                    /\ i + 1 <= Len(s) /\ s[i + 1] = "."
                    /\ gap > i + 2
                    /\ gap <= Len(s) /\ s[gap] \in Digits
         IN  IF hit THEN <<s[i], ".", s[gap]>> \o JoinDecimalsFrom(s, gap + 1)
             ELSE <<s[i]>> \o JoinDecimalsFrom(s, i + 1)

JoinDecimals(s) == JoinDecimalsFrom(s, 1)

\* re.sub(r'\.([,;:])', r'\1', content)
RECURSIVE DropPeriodBeforePunctFrom(_, _)
DropPeriodBeforePunctFrom(s, i) ==
    IF i > Len(s) THEN <<>>
    ELSE IF s[i] = "." /\ i + 1 <= Len(s) /\ s[i + 1] \in InnerPunct
         THEN <<s[i + 1]>> \o DropPeriodBeforePunctFrom(s, i + 2)
    ELSE <<s[i]>> \o DropPeriodBeforePunctFrom(s, i + 1)

DropPeriodBeforePunct(s) == DropPeriodBeforePunctFrom(s, 1)

\* re.sub(r'\s+([.,;:!?])', r'\1', content)
RECURSIVE DropSpaceBeforePunctFrom(_, _)
DropSpaceBeforePunctFrom(s, i) ==
    IF i > Len(s) THEN <<>>
    ELSE LET run == RunEnd(s, i, Whitespace)
             hit == run > i /\ run <= Len(s) /\ s[run] \in AnyPunct
         IN  IF hit THEN <<s[run]>> \o DropSpaceBeforePunctFrom(s, run + 1)
             ELSE <<s[i]>> \o DropSpaceBeforePunctFrom(s, i + 1)

DropSpaceBeforePunct(s) == DropSpaceBeforePunctFrom(s, 1)

\* re.sub(r'([.,;:!?])([A-Z])', r'\1 \2', content)
RECURSIVE SpaceBeforeCapitalFrom(_, _)
SpaceBeforeCapitalFrom(s, i) ==
    IF i > Len(s) THEN <<>>
    ELSE IF s[i] \in AnyPunct /\ i + 1 <= Len(s) /\ s[i + 1] \in Capitals
         THEN <<s[i], " ", s[i + 1]>> \o SpaceBeforeCapitalFrom(s, i + 2)
    ELSE <<s[i]>> \o SpaceBeforeCapitalFrom(s, i + 1)

SpaceBeforeCapital(s) == SpaceBeforeCapitalFrom(s, 1)

\* re.sub(r'([.!?])\s+', r'\1 ', content)
RECURSIVE SingleSpaceAfterSentenceFrom(_, _)
SingleSpaceAfterSentenceFrom(s, i) ==
    IF i > Len(s) THEN <<>>
    ELSE LET run == RunEnd(s, i + 1, Whitespace)
             hit == s[i] \in SentenceEnd /\ run > i + 1
         IN  IF hit THEN <<s[i], " ">> \o SingleSpaceAfterSentenceFrom(s, run)
             ELSE <<s[i]>> \o SingleSpaceAfterSentenceFrom(s, i + 1)

SingleSpaceAfterSentence(s) == SingleSpaceAfterSentenceFrom(s, 1)

\* A normalizer without its last step.
EnsureFinalPeriodSkipped(s) == s

\* if content and not content[-1] in '.!?': content += '.'
EnsureFinalPeriod(s) ==
    IF s # <<>> /\ s[Len(s)] \notin SentenceEnd THEN Append(s, ".") ELSE s

\* GrantApplicationGenerator._post_process_content (section_type is unused)
PostProcessContent(content) ==
    LET c1  == StripText(content)
        c2  == StripBold(c1)
        c3  == StripItalic(c2)
        c4  == StripBullets(c3)
        c5  == CollapseNewlines(c4)
        c6  == CollapsePunctuation(c5)
        c7  == JoinDecimals(c6)
        c8  == DropPeriodBeforePunct(c7)
        c9  == DropSpaceBeforePunct(c8)
        c10 == SpaceBeforeCapital(c9)
        c11 == SingleSpaceAfterSentence(c10)
    IN  EnsureFinalPeriod(c11)

-----------------------------------------------------------------------------
(* Python dicts.  A dict read with .get is a function on the keys it has;  *)
(* a dict that is built and iterated keeps insertion order and is a        *)
(* sequence of items.                                                      *)

\* d.get(k, default)
Get(d, k, default) == IF k \in DOMAIN d THEN d[k] ELSE default

\* list(d.keys()) of an ordered dict
DictKeys(d) == [i \in 1..Len(d) |-> d[i].key]

\* d[k] = v: a new key is appended, an existing key keeps its place
DictSet(d, k, v) ==
    IF \E i \in 1..Len(d) : d[i].key = k
    THEN [i \in 1..Len(d) |-> IF d[i].key = k THEN [key |-> k, value |-> v] ELSE d[i]]
    ELSE Append(d, [key |-> k, value |-> v])

\* d[k] of an ordered dict that has k
DictValue(d, k) == d[CHOOSE i \in 1..Len(d) : d[i].key = k].value

\* sep.join(parts): the pieces of the joined string ("" for no parts)
RECURSIVE JoinWith(_, _)
JoinWith(parts, sep) ==
    IF parts = <<>> THEN <<>>
    ELSE IF Len(parts) = 1 THEN <<parts[1]>>
    ELSE <<parts[1], sep>> \o JoinWith(Tail(parts), sep)

\* xs[:n]
Take(xs, n) == SubSeq(xs, 1, IF Len(xs) < n THEN Len(xs) ELSE n)

-----------------------------------------------------------------------------
(* GrantVectorStore.search_similar and get_organizational_voice_examples.  *)

\* settings.top_k_retrieval
TopKRetrieval == 5

\* The texts a node of the collection may hold.
NodeTexts == {"", "Cambio Labs empowers BIPOC youth"}

\* The most nodes the collection holds.
MaxIndexed == 2

Collections == SeqsUpTo(NodeTexts, MaxIndexed)

\* The sequences of n distinct elements of S.
RECURSIVE Arrangements(_, _)
Arrangements(S, n) ==
    IF n = 0 THEN {<<>>}
    ELSE UNION {{<<x>> \o r : r \in Arrangements(S \ {x}, n - 1)} : x \in S}

Min(a, b) == IF a < b THEN a ELSE b

\* The outcomes of search_similar(query, top_k) on the collection `nodes`:
\* get_existing_index gives no index and the result is []; or it gives one
\* and the retriever raises; or the retriever ranks the nodes by similarity to the query (any
\* order, the embedding being opaque) and the top_k best are returned.
SearchSimilar(nodes, query, top_k) ==
    LET k == IF top_k = 0 THEN TopKRetrieval ELSE top_k
        ranked == Arrangements(1..Len(nodes), Min(k, Len(nodes)))
    IN  {[index |-> FALSE, raised |-> FALSE, results |-> <<>>],
         [index |-> TRUE, raised |-> TRUE, results |-> <<>>]}
        \cup {[index |-> TRUE, raised |-> FALSE,
               results |-> [i \in 1..Len(r) |-> [text |-> nodes[r[i]], node |-> r[i]]]]
              : r \in ranked}

\* The record kept of a search_similar call and its outcome.
Searched(query, top_k, out) ==
    [called |-> TRUE, query |-> query, top_k |-> top_k, index |-> out.index, raised |-> out.raised,
     results |-> out.results]

\* The texts of all results, the empty ones too.
AllTexts(results) == [i \in 1..Len(results) |-> results[i].text]

\* [result["text"] for result in results if result["text"]]
RECURSIVE NonEmptyTexts(_)
NonEmptyTexts(results) ==
    IF results = <<>> THEN <<>>
    ELSE (IF results[1].text # "" THEN <<results[1].text>> ELSE <<>>)
         \o NonEmptyTexts(Tail(results))

\* The query of get_organizational_voice_examples() (voice_type is None)
VoiceQuery == "Cambio Labs mission underestimated BIPOC youth adults Journey platform"

-----------------------------------------------------------------------------
(* GrantApplicationGenerator: prompts, the backend and the two loops.      *)

\* The default sections with the outcomes ahead of the description.
DefaultSectionsOutcomesFirst ==
    <<"project_overview", "organizational_background", "intended_outcomes",
      "project_description", "implementation_plan", "sustainability_plan">>

DefaultSections ==
    <<"project_overview", "organizational_background", "project_description",
      "intended_outcomes", "implementation_plan", "sustainability_plan">>

\* The section types a caller asks for; the last has no entry in section_prompts.
SectionNames == {"project_overview", "budget_narrative"}

\* section_type.replace('_', ' ')
Spaced(section_type) ==
    CASE section_type = "project_overview" -> "project overview"
      [] section_type = "organizational_background" -> "organizational background"
      [] section_type = "project_description" -> "project description"
      [] section_type = "intended_outcomes" -> "intended outcomes"
      [] section_type = "implementation_plan" -> "implementation plan"
      [] section_type = "sustainability_plan" -> "sustainability plan"
      [] section_type = "budget_narrative" -> "budget narrative"

\* The longest sections_needed list a caller passes.
MaxRequested == 2

\* sections_needed: absent (None) or a list
Requests ==
    {[given |-> FALSE, list |-> <<>>]}
    \cup {[given |-> TRUE, list |-> l] : l \in SeqsUpTo(SectionNames, MaxRequested)}

\* `not sections_needed`
UsesDefault(request) == ~request.given \/ request.list = <<>>

\* Opportunity records: complete, without the optional fields, title only.
Opportunities ==
    { [title |-> "Digital Equity Fund", organization |-> "City Foundation",
       amount |-> "$50,000", focus_areas |-> <<"education", "workforce">>,
       description |-> "Supports digital skills", requirements |-> <<"501(c)(3)">>],
      [title |-> "Digital Equity Fund", organization |-> "City Foundation",
       description |-> "Supports digital skills"],
      [title |-> "Digital Equity Fund"] }

\* The query of _get_relevant_examples: " ".join(query_parts), as the pieces
\* of the joined string
ExamplesQuery(grant_opportunity, section_type) ==
    <<Get(grant_opportunity, "title", "")>> \o <<" ">>
    \o JoinWith(Get(grant_opportunity, "focus_areas", <<>>), " ") \o <<" ">>
    \o <<Spaced(section_type)>>

\* relevant_examples[:2]
ExamplesShown == 2

\* org_voice[:3]
VoiceShown == 3

\* _build_system_prompt: the section the prompt names and the instruction
\* section_prompts.get(section_type, <default>) selects
SystemPrompt(section_type) ==
    [section_type |-> section_type,
     instruction |-> IF \E i \in 1..Len(DefaultSections) : DefaultSections[i] = section_type
                     THEN section_type ELSE "default"]

\* A prompt that writes "Unknown" for a missing amount, as for the title.
UserPromptAmountUnknown(grant_opportunity, relevant_examples, org_voice, section_type) ==
    [title |-> Get(grant_opportunity, "title", "Unknown"),
     organization |-> Get(grant_opportunity, "organization", "Unknown"),
     amount |-> Get(grant_opportunity, "amount", "Unknown"),
     focus_areas |-> JoinWith(Get(grant_opportunity, "focus_areas", <<>>), ", "),
     description |-> Get(grant_opportunity, "description", ""),
     requirements |-> Get(grant_opportunity, "requirements", <<>>),
     examples |-> Take(relevant_examples, ExamplesShown),
     voice |-> Take(org_voice, VoiceShown),
     section |-> Spaced(section_type)]

\* _build_user_prompt: the values the template interpolates
UserPrompt(grant_opportunity, relevant_examples, org_voice, section_type) ==
    [title |-> Get(grant_opportunity, "title", "Unknown"),
     organization |-> Get(grant_opportunity, "organization", "Unknown"),
     amount |-> Get(grant_opportunity, "amount", "Not specified"),
     focus_areas |-> JoinWith(Get(grant_opportunity, "focus_areas", <<>>), ", "),
     description |-> Get(grant_opportunity, "description", ""),
     requirements |-> Get(grant_opportunity, "requirements", <<>>),
     examples |-> Take(relevant_examples, ExamplesShown),
     voice |-> Take(org_voice, VoiceShown),
     section |-> Spaced(section_type)]

\* The messages _refine_section composes
RefineMessages(content, fb, section_type) ==
    [system |-> [section_type |-> section_type],
     user |-> [content |-> content, feedback |-> fb]]

\* The text the backend answers with when it answers.
LlmTexts == {<<"O", "k", ".", ".", " ", "G", "o">>}

\* What llm.chat does: it raises (timeout, connection failure), it answers
\* with no content (response.message.content is None), or it answers a text.
LlmOutcomes ==
    {[kind |-> "raise", content |-> <<>>], [kind |-> "malformed", content |-> <<>>]}
    \cup {[kind |-> "text", content |-> t] : t \in LlmTexts}

Feedbacks == {"Make the impact metrics more specific"}

\* f"Error generating {section_type} section. Please try again. (Check console for details)"
ErrorPlaceholder(section_type) ==
    <<"Error generating ", section_type,
      " section. Please try again. (Check console for details)">>

\* A backend wrapper that calls again when the first call failed.
LlmCallWithRetry(calls, op, section_type, resp) ==
    LET call == [op |-> op, section |-> section_type,
                 failed |-> resp.kind # "text", answer |-> resp.content]
    IN  IF resp.kind # "text" THEN calls \o <<call, call>> ELSE Append(calls, call)

\* self.llm.chat(messages): the call, logged with what the backend did
LlmCall(calls, op, section_type, resp) ==
    Append(calls, [op |-> op, section |-> section_type,
                   failed |-> resp.kind # "text", answer |-> resp.content])

\* _generate_section without its try/except: a backend failure propagates.
GenerateSectionUnguarded(section_type, resp) ==
    [raised |-> resp.kind # "text",
     content |-> IF resp.kind = "text" THEN PostProcessContent(resp.content) ELSE <<>>]

\* The try/except of _generate_section: the normalized answer, or the
\* placeholder when the call or the reading of its content raised.
GenerateSectionResult(section_type, resp) ==
    [raised |-> FALSE,
     content |-> IF resp.kind = "text" THEN PostProcessContent(resp.content)
                 ELSE ErrorPlaceholder(section_type)]

\* _refine_section answering a failure the way _generate_section does.
RefineSectionPlaceholder(content, section_type, resp) ==
    [raised |-> FALSE,
     content |-> IF resp.kind = "text" THEN PostProcessContent(resp.content)
                 ELSE ErrorPlaceholder(section_type)]

\* The try/except of _refine_section: the normalized answer, or the content
\* it was given.
RefineSectionResult(content, section_type, resp) ==
    [raised |-> FALSE,
     content |-> IF resp.kind = "text" THEN PostProcessContent(resp.content)
                 ELSE content]

\* The calls exercised: every short request with every opportunity record and
\* collection, and the six default sections with the complete record and an
\* empty or a one-node collection.
GenInit ==
    /\ gpc = "idle"
    /\ opp \in Opportunities
    /\ requested \in Requests
    /\ collection \in Collections
    /\ UsesDefault(requested) => "requirements" \in DOMAIN opp /\ Len(collection) <= 1
    /\ sections = <<>>
    /\ idx = 0
    /\ application = <<>>
    /\ refined = <<>>
    /\ feedback = ""
    /\ examples = <<>>
    /\ voice = <<>>
    /\ messages = <<>>
    /\ lastSearch = NoSearch
    /\ llmCalls = <<>>
    /\ gError = "none"
    /\ NormOff
    /\ ChunkOff
    /\ ParseOff
    /\ LoadOff
    /\ FilterOff
    /\ AppOff

\* The texts of a collection large enough for the prompt to leave excerpts out.
IndexedTexts == NodeTexts \cup {"The Journey platform"}

\* One node more than the prompt shows voice excerpts.
IndexedCollections == SeqsUpTo(IndexedTexts, VoiceShown + 1)

\* One request for one section against every collection of IndexedCollections.
RetrieveInit ==
    /\ gpc = "idle"
    /\ opp \in Opportunities
    /\ "requirements" \in DOMAIN opp
    /\ requested = [given |-> TRUE, list |-> <<"project_overview">>]
    /\ collection \in IndexedCollections
    /\ sections = <<>>
    /\ idx = 0
    /\ application = <<>>
    /\ refined = <<>>
    /\ feedback = ""
    /\ examples = <<>>
    /\ voice = <<>>
    /\ messages = <<>>
    /\ lastSearch = NoSearch
    /\ llmCalls = <<>>
    /\ gError = "none"
    /\ NormOff
    /\ ChunkOff
    /\ ParseOff
    /\ LoadOff
    /\ FilterOff
    /\ AppOff

\* generate_application up to its loop: `if not sections_needed`
GenerateApplication ==
    /\ gpc = "idle"
    /\ sections' = IF UsesDefault(requested) THEN DefaultSections ELSE requested.list
    /\ application' = <<>>
    /\ idx' = 1
    /\ gpc' = "examples"
    /\ UNCHANGED <<opp, requested, collection, refined, feedback, examples, voice,
                   messages, lastSearch, llmCalls, gError>>
    /\ UNCHANGED <<normVars, chunkVars, parseVars, loadVars, filterVars, appVars>>

\* _generate_section: relevant_examples = self._get_relevant_examples(...)
GetRelevantExamples ==
    /\ gpc = "examples"
    /\ \E out \in SearchSimilar(collection, ExamplesQuery(opp, sections[idx]), 3) :
          /\ lastSearch' = Searched(ExamplesQuery(opp, sections[idx]), 3, out)
          /\ IF out.raised
             THEN /\ gpc' = "raised"
                  /\ gError' = "retrieval"
                  /\ UNCHANGED examples
             ELSE /\ examples' = NonEmptyTexts(out.results)
                  /\ gpc' = "voice"
                  /\ UNCHANGED gError
    /\ UNCHANGED <<opp, requested, collection, sections, idx, application, refined,
                   feedback, voice, messages, llmCalls>>
    /\ UNCHANGED <<normVars, chunkVars, parseVars, loadVars, filterVars, appVars>>

\* _generate_section: org_voice = get_organizational_voice_examples(), then the
\* two prompts and the messages
GetOrganizationalVoice ==
    /\ gpc = "voice"
    /\ \E out \in SearchSimilar(collection, VoiceQuery, 10) :
          /\ lastSearch' = Searched(<<VoiceQuery>>, 10, out)
          /\ IF out.raised
             THEN /\ gpc' = "raised"
                  /\ gError' = "retrieval"
                  /\ UNCHANGED <<voice, messages>>
             ELSE /\ voice' = NonEmptyTexts(out.results)
                  /\ messages' = [system |-> SystemPrompt(sections[idx]),
                                  user |-> UserPrompt(opp, examples, voice', sections[idx])]
                  /\ gpc' = "chat"
                  /\ UNCHANGED gError
    /\ UNCHANGED <<opp, requested, collection, sections, idx, application, refined,
                   feedback, examples, llmCalls>>
    /\ UNCHANGED <<normVars, chunkVars, parseVars, loadVars, filterVars, appVars>>

\* _generate_section: the try block around llm.chat, and the loop's
\* application_sections[section] = section_content
Chat ==
    /\ gpc = "chat"
    /\ \E resp \in LlmOutcomes :
          LET section == sections[idx]
              res == GenerateSectionResult(section, resp)
          IN  /\ llmCalls' = LlmCall(llmCalls, "generate", section, resp)
              /\ IF res.raised
                 THEN /\ gpc' = "raised"
                      /\ gError' = "generation"
                      /\ UNCHANGED <<application, idx>>
                 ELSE /\ application' = DictSet(application, section, res.content)
                      /\ idx' = idx + 1
                      /\ gpc' = IF idx = Len(sections) THEN "returned" ELSE "examples"
                      /\ UNCHANGED gError
    /\ examples' = <<>>
    /\ voice' = <<>>
    /\ messages' = <<>>
    /\ lastSearch' = NoSearch
    /\ UNCHANGED <<opp, requested, collection, sections, refined, feedback>>
    /\ UNCHANGED <<normVars, chunkVars, parseVars, loadVars, filterVars, appVars>>

\* refine_application(application, feedback) up to its loop, on the draft
\* generate_application returned
RefineApplication ==
    /\ gpc = "returned"
    /\ \E fb \in Feedbacks : feedback' = fb
    /\ refined' = <<>>
    /\ idx' = 1
    /\ gpc' = IF application = <<>> THEN "refined" ELSE "refine_chat"
    /\ UNCHANGED <<opp, requested, collection, sections, application, examples, voice,
                   messages, lastSearch, llmCalls, gError>>
    /\ UNCHANGED <<normVars, chunkVars, parseVars, loadVars, filterVars, appVars>>

\* _refine_section for the next item of application.items(), and the loop's
\* refined_application[section] = refined_content
RefineChat ==
    /\ gpc = "refine_chat"
    /\ \E resp \in LlmOutcomes :
          LET item == application[idx]
              res == RefineSectionResult(item.value, item.key, resp)
          IN  /\ llmCalls' = LlmCall(llmCalls, "refine", item.key, resp)
              /\ IF res.raised
                 THEN /\ gpc' = "raised"
                      /\ gError' = "generation"
                      /\ UNCHANGED <<refined, idx>>
                 ELSE /\ refined' = DictSet(refined, item.key, res.content)
                      /\ idx' = idx + 1
                      /\ gpc' = IF idx = Len(application) THEN "refined" ELSE "refine_chat"
                      /\ UNCHANGED gError
    /\ UNCHANGED <<opp, requested, collection, sections, application, feedback,
                   examples, voice, messages, lastSearch>>
    /\ UNCHANGED <<normVars, chunkVars, parseVars, loadVars, filterVars, appVars>>

GenNext ==
    \/ GenerateApplication
    \/ GetRelevantExamples
    \/ GetOrganizationalVoice
    \/ Chat
    \/ RefineApplication
    \/ RefineChat

-----------------------------------------------------------------------------
(* GrantDocumentProcessor.get_chunked_content.                             *)

\* text.split(): the maximal runs of non-whitespace characters
RECURSIVE SplitFrom(_, _)
SplitFrom(s, i) ==
    LET start == RunEnd(s, i, Whitespace)
        stop  == RunEndNot(s, start, Whitespace)
    IN  IF start > Len(s) THEN <<>>
        ELSE <<Slice(s, start, stop)>> \o SplitFrom(s, stop)

Split(s) == SplitFrom(s, 1)

\* ' '.join(words)
RECURSIVE JoinWords(_)
JoinWords(words) ==
    IF words = <<>> THEN <<>>
    ELSE IF Len(words) = 1 THEN words[1]
    ELSE words[1] \o <<" ">> \o JoinWords(Tail(words))

\* settings.chunk_overlap
ChunkOverlap == 50

\* Window starts that leave the configured overlap between windows.
RECURSIVE RangeOverlapping(_, _, _)
RangeOverlapping(from, n, step) ==
    IF from >= n THEN <<>>
    ELSE <<from>> \o RangeOverlapping(from + (IF step > ChunkOverlap THEN step - ChunkOverlap ELSE 1),
                                      n, step)

\* list(range(from, n, step)) for step > 0
RECURSIVE Range(_, _, _)
Range(from, n, step) ==
    IF from >= n THEN <<>> ELSE <<from>> \o Range(from + step, n, step)

\* A chunk identifier that leaves the section name out.
ChunkIdWithoutSection(filename, section_name, tag) ==
    filename \o "_" \o tag

\* f"{doc['filename']}_{section_name}_{i}" and f"{doc['filename']}_{section_name}_full"
ChunkId(filename, section_name, tag) ==
    filename \o "_" \o section_name \o "_" \o tag

\* One element of chunks
Chunk(text, doc, section_name, tag) ==
    [text |-> text,
     metadata |-> [source |-> doc.filename,
                   grant_type |-> doc.grant_type,
                   section |-> section_name,
                   chunk_id |-> ChunkId(doc.filename, section_name, tag)]]

\* The comparison with >= for >.
ExceedsOrEquals(section_content, chunk_size) == Len(section_content) >= chunk_size

\* `len(section_content) > chunk_size`
Exceeds(section_content, chunk_size) == Len(section_content) > chunk_size

\* The body of the inner loop for one section: the chunks it appends, or the
\* ValueError of range() with a step of zero.
SectionChunks(doc, section_name, section_content, chunk_size) ==
    IF Exceeds(section_content, chunk_size)
    THEN LET words == Split(section_content)
             step  == chunk_size \div 6
             starts == Range(0, Len(words), step)
         IN  IF step = 0
             THEN [raised |-> TRUE, chunks |-> <<>>]
             ELSE [raised |-> FALSE,
                   chunks |-> [k \in 1..Len(starts) |->
                                 Chunk(JoinWords(SubSeq(words, starts[k] + 1,
                                                        Min(starts[k] + step, Len(words)))),
                                       doc, section_name, ToString(starts[k]))]]
    ELSE [raised |-> FALSE,
          chunks |-> <<Chunk(section_content, doc, section_name, "full")>>]

\* The documents of a batch, in list order: filename and grant_type.
DocNames == <<"DATA_BRL_Catalyst", "Scaling_BRL_2024">>

DocGrantType == "BRL Catalyst"

\* The most sections a batch holds, over all its documents.
MaxSections == 2

\* The most words of a section text.
MaxWords == 4

WordLens == {1, 2, 3}

\* The letter each word of a section text is written with.
WordLetters == <<"a", "b", "c", "d", "e", "f">>

\* A section text of n words of w letters, the i-th in the i-th letter,
\* single-spaced; padded, it has a
\* leading and a trailing space (what _clean_text leaves when it removes a
\* boilerplate phrase at an edge).
SectionText(n, w, padded) ==
    LET body == JoinWords([i \in 1..n |-> [j \in 1..w |-> WordLetters[i]]])
    IN  IF padded THEN <<" ">> \o body \o <<" ">> ELSE body

SectionTexts == {SectionText(n, w, p) : n \in 0..MaxWords, w \in WordLens, p \in BOOLEAN}

\* The thresholds exercised: below 6, and around the multiples of 6.
ChunkSizes == {1, 5, 6, 7, 12, 13}

\* The number of sections read so far.
RECURSIVE SectionsRead(_)
SectionsRead(docs) ==
    IF docs = <<>> THEN 0 ELSE Len(docs[1].sections) + SectionsRead(Tail(docs))

ChunkInit ==
    /\ cpc = "loop"
    /\ chunkSize \in ChunkSizes
    /\ documents = <<>>
    /\ chunks = <<>>
    /\ NormOff
    /\ GenOff
    /\ ParseOff
    /\ LoadOff
    /\ FilterOff
    /\ AppOff

\* The calls with a threshold of at least 6, where every window has a word.
WindowInit ==
    /\ cpc = "loop"
    /\ chunkSize \in {T \in ChunkSizes : T >= 6}
    /\ documents = <<>>
    /\ chunks = <<>>
    /\ NormOff
    /\ GenOff
    /\ ParseOff
    /\ LoadOff
    /\ FilterOff
    /\ AppOff

\* `for doc in documents`: the loop takes the next document of the list
NextDocument ==
    /\ cpc = "loop"
    /\ Len(documents) < Len(DocNames)
    /\ documents' = Append(documents, [filename |-> DocNames[Len(documents) + 1],
                                       grant_type |-> DocGrantType,
                                       sections |-> <<>>])
    /\ UNCHANGED <<cpc, chunkSize, chunks>>
    /\ UNCHANGED <<normVars, genVars, parseVars, loadVars, filterVars, appVars>>

\* `for section_name, section_content in doc["sections"].items()`: the body,
\* for the next section of the current document
ChunkSection ==
    /\ cpc = "loop"
    /\ documents # <<>>
    /\ SectionsRead(documents) < MaxSections
    /\ \E section_content \in SectionTexts :
          LET d == Len(documents)
              doc == documents[d]
              section_name == "content_" \o ToString(Len(doc.sections))
              res == SectionChunks(doc, section_name, section_content, chunkSize)
          IN  /\ documents' = [documents EXCEPT ![d].sections =
                                  Append(@, [key |-> section_name, value |-> section_content])]
              /\ IF res.raised
                 THEN cpc' = "raised" /\ UNCHANGED chunks
                 ELSE chunks' = chunks \o res.chunks /\ UNCHANGED cpc
    /\ UNCHANGED chunkSize
    /\ UNCHANGED <<normVars, genVars, parseVars, loadVars, filterVars, appVars>>

\* `return chunks`: the document list is exhausted
ChunkReturn ==
    /\ cpc = "loop"
    /\ cpc' = "returned"
    /\ UNCHANGED <<chunkSize, documents, chunks>>
    /\ UNCHANGED <<normVars, genVars, parseVars, loadVars, filterVars, appVars>>

ChunkNext == NextDocument \/ ChunkSection \/ ChunkReturn

-----------------------------------------------------------------------------
(* GrantDocumentProcessor: the Format Classifier, the section parsers, the *)
(* Voice Signature Extractor and load_grant_documents.                     *)
(*                                                                         *)
(* An identifier is a sequence of characters.  A raw text is a sequence of *)
(* characters and of phrases: a phrase is a run of characters that one of  *)
(* the regular expressions looks for, written as one string.               *)

\* `sub in s`: sub occurs in s as a run of consecutive characters
Contains(s, sub) ==
    \E i \in 0..(Len(s) - Len(sub)) : SubSeq(s, i + 1, i + Len(sub)) = sub

\* s.startswith(prefix)
StartsWith(s, prefix) ==
    Len(s) >= Len(prefix) /\ SubSeq(s, 1, Len(prefix)) = prefix

MarkerAWS == <<"A", "W", "S">>

MarkerBRL == <<"B", "R", "L">>

MarkerAIEconomic ==
    <<"A", "I", " ", "f", "o", "r", " ", "E", "c", "o", "n", "o", "m", "i", "c">>

PrefixDATA == <<"D", "A", "T", "A">>

PrefixScaling == <<"S", "c", "a", "l", "i", "n", "g">>

\* A classifier that looks for the B marker before the A marker.
FormatOfBrlFirst(filename) ==
    IF Contains(filename, MarkerBRL)
    THEN [strategy |-> "brl", grant_type |-> "BRL Catalyst"]
    ELSE IF Contains(filename, MarkerAWS)
    THEN [strategy |-> "aws", grant_type |-> "AWS Grant"]
    ELSE IF Contains(filename, MarkerAIEconomic)
    THEN [strategy |-> "ai_economic", grant_type |-> "AI for Economic Empowerment"]
    ELSE [strategy |-> "general", grant_type |-> "General Grant"]

\* The branch _parse_grant_document takes for a filename: the strategy it
\* parses with and the grant_type it records.
FormatOf(filename) ==
    IF Contains(filename, MarkerAWS)
    THEN [strategy |-> "aws", grant_type |-> "AWS Grant"]
    ELSE IF Contains(filename, MarkerBRL)
    THEN [strategy |-> "brl", grant_type |-> "BRL Catalyst"]
    ELSE IF Contains(filename, MarkerAIEconomic)
    THEN [strategy |-> "ai_economic", grant_type |-> "AI for Economic Empowerment"]
    ELSE [strategy |-> "general", grant_type |-> "General Grant"]

\* s.split(sep): the pieces between the non-overlapping occurrences of sep,
\* found left to right, the empty pieces kept
RECURSIVE SplitOn(_, _)
SplitOn(s, sep) ==
    IF \E i \in 0..(Len(s) - Len(sep)) : SubSeq(s, i + 1, i + Len(sep)) = sep
    THEN LET at == CHOOSE i \in 0..(Len(s) - Len(sep)) :
                      /\ SubSeq(s, i + 1, i + Len(sep)) = sep
                      /\ \A j \in 0..(i - 1) : SubSeq(s, j + 1, j + Len(sep)) # sep
         IN  <<SubSeq(s, 1, at)>> \o SplitOn(SubSeq(s, at + Len(sep) + 1, Len(s)), sep)
    ELSE <<s>>

\* \d+\.\d+ : a section number
Numberings == {"1.2"}

\* The digits of a section number before its period.
IntegerPart(numbering) == "1"

ReplacementChar == "<U+FFFD>"

\* "Please use \d+ words or less" and "\(\d+-\d+ words\)", in any case
WordLimits == {"Please use 100 words or less", "please use 100 words or less"}

WordRanges == {"(50-100 words)", "(50-100 WORDS)"}

\* re.sub(r'\s+', ' ', text)
RECURSIVE CollapseWhitespaceFrom(_, _)
CollapseWhitespaceFrom(s, i) ==
    IF i > Len(s) THEN <<>>
    ELSE IF s[i] \in Whitespace
    THEN <<" ">> \o CollapseWhitespaceFrom(s, RunEnd(s, i, Whitespace))
    ELSE <<s[i]>> \o CollapseWhitespaceFrom(s, i + 1)

\* re.sub(r'^\d+\.\d+\s*[<U+FFFD><U+2022>]?\s*', '', text)
StripNumbering(s) ==
    IF s # <<>> /\ s[1] \in Numberings
    THEN LET a == RunEnd(s, 2, Whitespace)
             b == IF a <= Len(s) /\ s[a] \in {ReplacementChar, Bullet} THEN a + 1 ELSE a
             c == RunEnd(s, b, Whitespace)
         IN  SubSeq(s, c, Len(s))
    ELSE s

\* _clean_text
CleanText(text) ==
    LET stripped == StripText(CollapseWhitespaceFrom(text, 1))
        unnumbered == StripNumbering(stripped)
    IN  SelectSeq(unnumbered, LAMBDA c : c \notin WordLimits \cup WordRanges)

\* The phrase each pattern of _parse_aws_format opens with, in the order of
\* the patterns dict; re.IGNORECASE accepts it in any case.
AwsPatterns ==
    << [key |-> "project_overview",
        phrases |-> {"Please provide a high-level project overview",
                     "PLEASE PROVIDE A HIGH-LEVEL PROJECT OVERVIEW"}],
       [key |-> "project_description",
        phrases |-> {"Describe your project in depth", "DESCRIBE YOUR PROJECT IN DEPTH"}],
       [key |-> "intended_outcomes",
        phrases |-> {"What are the intended outcomes", "WHAT ARE THE INTENDED OUTCOMES"}],
       [key |-> "driving_need",
        phrases |-> {"What is driving the need", "WHAT IS DRIVING THE NEED"}],
       [key |-> "long_term_support",
        phrases |-> {"How will you support this project long-term",
                     "HOW WILL YOU SUPPORT THIS PROJECT LONG-TERM"}],
       [key |-> "technical_resources",
        phrases |-> {"Describe the resources and technical skills",
                     "DESCRIBE THE RESOURCES AND TECHNICAL SKILLS"}] >>

\* A rule that takes the whole text when its phrase does not occur.
AwsMatchOrWholeText(content, phrases) ==
    LET from == RunEndNot(content, 1, phrases)
    IN  [found |-> TRUE, text |-> SubSeq(content, Min(from, Len(content) + 1), Len(content))]

\* re.search(phrase + r".*?(?=\d+\.\d+|$)", content, re.DOTALL | re.IGNORECASE):
\* the leftmost occurrence of the phrase, up to the first section number
\* after it, or to the end of the text (`$` also matches before a final
\* newline).  found is FALSE when the phrase does not occur.
AwsMatch(content, phrases) ==
    LET from == RunEndNot(content, 1, phrases)
        stop == RunEndNot(content, from + 1, Numberings)
        last == IF stop > Len(content) /\ stop - 1 > from /\ content[Len(content)] = "\n"
                THEN Len(content) ELSE stop
    IN  IF from > Len(content) THEN [found |-> FALSE, text |-> <<>>]
        ELSE [found |-> TRUE, text |-> Slice(content, from, last)]

\* _parse_aws_format: the loop over patterns.items()
RECURSIVE ParseAwsFrom(_, _)
ParseAwsFrom(content, k) ==
    IF k > Len(AwsPatterns) THEN <<>>
    ELSE LET m == AwsMatch(content, AwsPatterns[k].phrases)
         IN  (IF m.found THEN <<[key |-> AwsPatterns[k].key, value |-> CleanText(m.text)]>>
              ELSE <<>>)
             \o ParseAwsFrom(content, k + 1)

ParseAwsFormat(content) == ParseAwsFrom(content, 1)

\* _parse_brl_format and _parse_ai_economic_format: the loop over
\* content.split('\n'), built being the dict sections so far
RECURSIVE ParseLinesFrom(_, _, _)
ParseLinesFrom(lines, k, built) ==
    IF k > Len(lines) THEN built
    ELSE ParseLinesFrom(lines, k + 1,
            IF StripText(lines[k]) # <<>>
            THEN DictSet(built, "content_" \o ToString(Len(built)), CleanText(lines[k]))
            ELSE built)

ParseBrlFormat(content) == ParseLinesFrom(SplitOn(content, <<"\n">>), 1, <<>>)

ParseAiEconomicFormat(content) == ParseLinesFrom(SplitOn(content, <<"\n">>), 1, <<>>)

\* _parse_general_format: the loop over enumerate(content.split('\n\n'))
RECURSIVE ParseParagraphsFrom(_, _, _)
ParseParagraphsFrom(paragraphs, k, built) ==
    IF k > Len(paragraphs) THEN built
    ELSE ParseParagraphsFrom(paragraphs, k + 1,
            IF StripText(paragraphs[k]) # <<>>
            THEN DictSet(built, "section_" \o ToString(k - 1), CleanText(paragraphs[k]))
            ELSE built)

ParseGeneralFormat(content) ==
    ParseParagraphsFrom(SplitOn(content, <<"\n", "\n">>), 1, <<>>)

\* The spellings of the program name that r"Journey[^.]*" accepts.
ProgramNames == {"Journey", "journey"}

\* re.findall(r"Journey[^.]*", content, re.IGNORECASE): each match runs from
\* the name to the next period, which may be the period of a section
\* number, or to the end of the text.
RECURSIVE ProgramMatchesFrom(_, _)
ProgramMatchesFrom(content, i) ==
    LET from == RunEndNot(content, i, ProgramNames)
        stop == RunEndNot(content, from + 1, Numberings \cup {"."})
    IN  IF from > Len(content) THEN <<>>
        ELSE IF stop <= Len(content) /\ content[stop] \in Numberings
        THEN <<Slice(content, from, stop) \o <<IntegerPart(content[stop])>> >>
             \o ProgramMatchesFrom(content, stop + 1)
        ELSE <<Slice(content, from, stop)>> \o ProgramMatchesFrom(content, stop)

\* _extract_organizational_voice.  Of the signal phrases only the program
\* name occurs in the raw texts drawn here, so the other four lists, whose
\* patterns need a phrase the texts do not hold, are empty.
ExtractOrganizationalVoice(content) ==
    [mission_phrases |-> <<>>,
     population_focus |-> <<>>,
     program_names |-> ProgramMatchesFrom(content, 1),
     impact_metrics |-> <<>>,
     values_language |-> <<>>]

\* _parse_grant_document
ParseGrantDocument(content, filename) ==
    LET format == FormatOf(filename)
        parsed == CASE format.strategy = "aws" -> ParseAwsFormat(content)
                      [] format.strategy = "brl" -> ParseBrlFormat(content)
                      [] format.strategy = "ai_economic" -> ParseAiEconomicFormat(content)
                      [] OTHER -> ParseGeneralFormat(content)
    IN  [filename |-> filename,
         grant_type |-> format.grant_type,
         sections |-> parsed,
         organizational_voice |-> ExtractOrganizationalVoice(content),
         full_content |-> content]

\* Identifiers: with one marker, with several, with a marker in lower case,
\* with none; the last two lack the prefix load_grant_documents asks for.
Underscore == <<"_">>

Filenames ==
    { PrefixDATA \o Underscore \o MarkerAWS,
      PrefixDATA \o Underscore \o MarkerBRL \o Underscore \o MarkerAWS,
      PrefixScaling \o Underscore \o MarkerAIEconomic \o Underscore \o MarkerBRL,
      PrefixDATA \o Underscore \o MarkerAIEconomic,
      PrefixDATA \o Underscore \o <<"a", "w", "s">>,
      PrefixScaling \o Underscore \o <<"2", "0", "2", "4">>,
      <<"N", "o", "t", "e", "s">> \o Underscore \o MarkerAWS,
      <<"d", "a", "t", "a">> \o Underscore \o MarkerBRL }

\* What a raw text is made of: a letter, the whitespace that separates
\* words, lines and paragraphs, two of the phrases _parse_aws_format looks
\* for, a section number and the program name.
RawAlphabet ==
    {"a", " ", "\n", "Please provide a high-level project overview",
     "WHAT ARE THE INTENDED OUTCOMES", "1.2", "Journey"}

\* The longest raw text handed to _parse_grant_document.
MaxContentLen == 3

\* The raw texts: a section number is not followed by another one.
RawTexts ==
    {t \in SeqsUpTo(RawAlphabet, MaxContentLen) :
        \A i \in 1..(Len(t) - 1) : ~(t[i] \in Numberings /\ t[i + 1] \in Numberings)}

ParseInit ==
    /\ ppc = "input"
    /\ pFilename \in Filenames
    /\ pContent \in RawTexts
    /\ pDoc = NoDocument
    /\ LoadOff
    /\ NormOff
    /\ GenOff
    /\ ChunkOff
    /\ FilterOff
    /\ AppOff

\* doc = self._parse_grant_document(content, file_path.stem)
ParseDocument ==
    /\ ppc = "input"
    /\ pDoc' = ParseGrantDocument(pContent, pFilename)
    /\ ppc' = "parsed"
    /\ UNCHANGED <<pFilename, pContent>>
    /\ UNCHANGED <<loadVars, normVars, genVars, chunkVars, filterVars, appVars>>

ParseNext == ParseDocument

\* file_path.name.startswith("DATA") or file_path.name.startswith("Scaling")
Whitelisted(name) == StartsWith(name, PrefixDATA) \/ StartsWith(name, PrefixScaling)

\* What reading a file does: it decodes as UTF-8; or UTF-8 decoding fails and
\* the file is read as cp1252 with errors='replace'; or open/read raises
\* (the file vanished, no permission), the first time or in the fallback.
ReadOutcomes == {"utf-8", "cp1252", "error"}

\* The raw texts of the files of a directory.
LoadTexts == {<<"a">>, <<"Journey", "\n", "\n", "a">>}

\* The most *.txt files the data directory holds.
MaxFiles == 3

\* The stems of the *.txt files a data directory may hold.
LoadNames ==
    { PrefixDATA \o Underscore \o MarkerAWS,
      PrefixScaling \o Underscore \o MarkerAIEconomic \o Underscore \o MarkerBRL,
      PrefixScaling \o Underscore \o <<"2", "0", "2", "4">>,
      <<"N", "o", "t", "e", "s">> \o Underscore \o MarkerAWS,
      <<"d", "a", "t", "a">> \o Underscore \o MarkerBRL }

\* The files self.data_dir.glob("*.txt") may yield: the stem of the name,
\* and for a file the loop opens what reading it does and gives.
Files ==
    {[stem |-> n, read |-> "unread", content |-> <<>>] : n \in {m \in LoadNames : ~Whitelisted(m)}}
    \cup {[stem |-> n, read |-> "error", content |-> <<>>] : n \in {m \in LoadNames : Whitelisted(m)}}
    \cup {[stem |-> n, read |-> r, content |-> c] :
            n \in {m \in LoadNames : Whitelisted(m)}, r \in {"utf-8", "cp1252"}, c \in LoadTexts}

\* The loop body without its try/except: what open or read raises leaves it.
LoadFileUnguarded(file) ==
    IF ~Whitelisted(file.stem) THEN [raised |-> FALSE, docs |-> <<>>]
    ELSE IF file.read = "error" THEN [raised |-> TRUE, docs |-> <<>>]
    ELSE [raised |-> FALSE, docs |-> <<ParseGrantDocument(file.content, file.stem)>>]

\* The body of the loop of load_grant_documents for one file: the documents
\* it appends, and whether an exception leaves the loop.
LoadFile(file) ==
    IF ~Whitelisted(file.stem) THEN [raised |-> FALSE, docs |-> <<>>]
    ELSE IF file.read = "error" THEN [raised |-> FALSE, docs |-> <<>>]
    ELSE [raised |-> FALSE, docs |-> <<ParseGrantDocument(file.content, file.stem)>>]

LoadInit ==
    /\ lpc = "loop"
    /\ listing = <<>>
    /\ loaded = <<>>
    /\ ParseOff
    /\ NormOff
    /\ GenOff
    /\ ChunkOff
    /\ FilterOff
    /\ AppOff

\* `for file_path in self.data_dir.glob("*.txt")`: the body, for the next file
NextFile ==
    /\ lpc = "loop"
    /\ Len(listing) < MaxFiles
    /\ \E file \in Files :
          /\ \A i \in 1..Len(listing) : listing[i].stem # file.stem
          /\ listing' = Append(listing, file)
          /\ LET res == LoadFile(file)
             IN  IF res.raised
                 THEN lpc' = "raised" /\ UNCHANGED loaded
                 ELSE loaded' = loaded \o res.docs /\ UNCHANGED lpc
    /\ UNCHANGED <<parseVars, normVars, genVars, chunkVars, filterVars, appVars>>

\* `return documents`: the directory holds no further file
LoadReturn ==
    /\ lpc = "loop"
    /\ lpc' = "returned"
    /\ UNCHANGED <<listing, loaded>>
    /\ UNCHANGED <<parseVars, normVars, genVars, chunkVars, filterVars, appVars>>

LoadNext == NextFile \/ LoadReturn

-----------------------------------------------------------------------------
(* GrantDiscoveryEngine.filter_relevant_grants.  Titles, descriptions,     *)
(* focus areas and keywords are sequences of characters.                   *)

UpperLetters ==
    <<"A", "B", "C", "D", "E", "F", "G", "H", "I", "J", "K", "L", "M",
      "N", "O", "P", "Q", "R", "S", "T", "U", "V", "W", "X", "Y", "Z">>

LowerLetters ==
    <<"a", "b", "c", "d", "e", "f", "g", "h", "i", "j", "k", "l", "m",
      "n", "o", "p", "q", "r", "s", "t", "u", "v", "w", "x", "y", "z">>

\* str.lower()
Lower(s) ==
    [i \in 1..Len(s) |->
        IF \E k \in 1..26 : UpperLetters[k] = s[i]
        THEN LowerLetters[CHOOSE k \in 1..26 : UpperLetters[k] = s[i]]
        ELSE s[i]]

\* The default focus_areas of filter_relevant_grants
DefaultFocusAreas ==
    << <<"e", "d", "u", "c", "a", "t", "i", "o", "n">>,
       <<"t", "e", "c", "h", "n", "o", "l", "o", "g", "y">>,
       <<"w", "o", "r", "k", "f", "o", "r", "c", "e">>,
       <<"A", "I">>,
       <<"i", "n", "n", "o", "v", "a", "t", "i", "o", "n">>,
       <<"B", "I", "P", "O", "C">>,
       <<"u", "n", "d", "e", "r", "r", "e", "p", "r", "e", "s", "e", "n", "t", "e", "d">>,
       <<"n", "o", "n", "p", "r", "o", "f", "i", "t">>,
       <<"s", "o", "c", "i", "a", "l", " ", "i", "m", "p", "a", "c", "t">>,
       <<"y", "o", "u", "t", "h">>,
       <<"a", "d", "u", "l", "t", " ", "l", "e", "a", "r", "n", "i", "n", "g">>,
       <<"d", "i", "g", "i", "t", "a", "l", " ", "s", "k", "i", "l", "l", "s">> >>

\* str(list) of a list of strings: "['a', 'b']"
RECURSIVE ListItems(_)
ListItems(items) ==
    IF items = <<>> THEN <<>>
    ELSE <<"'">> \o items[1] \o <<"'">>
         \o (IF Len(items) > 1 THEN <<",", " ">> ELSE <<>>) \o ListItems(Tail(items))

ListRepr(items) == <<"[">> \o ListItems(items) \o <<"]">>

\* f"{grant.get('title', '')} {grant.get('description', '')} {grant.get('focus_areas', [])}".lower()
TextToSearch(grant) ==
    Lower(Get(grant, "title", <<>>) \o <<" ">> \o Get(grant, "description", <<>>)
          \o <<" ">> \o ListRepr(Get(grant, "focus_areas", <<>>)))

\* The loop over focus_areas: the number of areas found in the text
RECURSIVE RelevanceFrom(_, _, _)
RelevanceFrom(areas, k, text) ==
    IF k > Len(areas) THEN 0
    ELSE (IF Contains(text, Lower(areas[k])) THEN 1 ELSE 0) + RelevanceFrom(areas, k + 1, text)

RelevanceScore(grant, areas) == RelevanceFrom(areas, 1, TextToSearch(grant))

\* `relevance_score >= 2`
IsRelevant(score) == score >= 2

\* grant['relevance_score'] = relevance_score
Scored(grant, score) ==
    [k \in DOMAIN grant \cup {"relevance_score"} |->
        IF k = "relevance_score" THEN score ELSE grant[k]]

\* The loop over grants: the relevant ones, scored, in input order
RECURSIVE RelevantFrom(_, _, _)
RelevantFrom(grants, k, areas) ==
    IF k > Len(grants) THEN <<>>
    ELSE LET score == RelevanceScore(grants[k], areas)
         IN  (IF IsRelevant(score) THEN <<Scored(grants[k], score)>> ELSE <<>>)
             \o RelevantFrom(grants, k + 1, areas)

\* sorted(..., key=relevance_score, reverse=True): a stable sort, so records
\* of equal score keep their order
RECURSIVE InsertByScore(_, _)
InsertByScore(sorted, grant) ==
    IF sorted = <<>> THEN <<grant>>
    ELSE IF sorted[1].relevance_score < grant.relevance_score THEN <<grant>> \o sorted
    ELSE <<sorted[1]>> \o InsertByScore(Tail(sorted), grant)

RECURSIVE SortedByScore(_)
SortedByScore(grants) ==
    IF grants = <<>> THEN <<>>
    ELSE InsertByScore(SortedByScore(SubSeq(grants, 1, Len(grants) - 1)), grants[Len(grants)])

\* filter_relevant_grants(grants, focus_areas)
FilterRelevantGrants(grants, focus_areas) ==
    LET areas == IF focus_areas = <<>> THEN DefaultFocusAreas ELSE focus_areas
    IN  SortedByScore(RelevantFrom(grants, 1, areas))

\* Titles, descriptions and focus areas of discovered grants.
GrantTitles ==
    {<<"A", "I", " ", "Y", "o", "u", "t", "h", " ", "F", "u", "n", "d">>,
     <<"Y", "o", "u", "t", "h", " ", "s", "o", "c", "i", "a", "l">>,
     <<"R", "a", "i", "n", " ", "G", "a", "r", "d", "e", "n">>,
     <<"E", "d", "u", "c", "a", "t", "i", "o", "n">>}

GrantDescriptions ==
    {<<>>,
     <<"i", "m", "p", "a", "c", "t", " ", "g", "r", "a", "n", "t", "s">>,
     <<"N", "o", "n", "p", "r", "o", "f", "i", "t", " ", "w", "o", "r", "k", "f", "o", "r", "c", "e">>}

GrantFocusAreas ==
    {<<>>, <<<<"y", "o", "u", "t", "h">>>>, <<<<"e", "d", "u", "c", "a", "t", "i", "o", "n">>, <<"T", "e", "c", "h", "n", "o", "l", "o", "g", "y">>>>}

\* The records a search returns: with and without focus areas.
DiscoveredGrants ==
    {[title |-> t, description |-> d] : t \in GrantTitles, d \in GrantDescriptions}
    \cup {[title |-> t, description |-> d, focus_areas |-> f] :
            t \in GrantTitles, d \in GrantDescriptions, f \in GrantFocusAreas}

\* The most records a search returns.
MaxGrants == 2

FilterInit ==
    /\ fpc = "found"
    /\ allGrants \in SeqsUpTo(DiscoveredGrants, MaxGrants)
    /\ relevantGrants = <<>>
    /\ ParseOff
    /\ LoadOff
    /\ NormOff
    /\ GenOff
    /\ ChunkOff
    /\ AppOff

\* search_all_sources: `return self.filter_relevant_grants(all_grants)`
FilterGrants ==
    /\ fpc = "found"
    /\ relevantGrants' = FilterRelevantGrants(allGrants, <<>>)
    /\ fpc' = "filtered"
    /\ UNCHANGED allGrants
    /\ UNCHANGED <<parseVars, loadVars, normVars, genVars, chunkVars, appVars>>

FilterNext == FilterGrants

-----------------------------------------------------------------------------
(* app.py: one session of the user interface.  Every user action runs the  *)
(* script from the top: initialize_system, then the four tabs; at most one *)
(* button is pressed in a run, and the buttons exist only in a run that    *)
(* got past initialize_system.                                             *)

\* The components, in the order initialize_system constructs them.
Components == <<"doc_processor", "vector_store", "discovery_engine", "generator">>

\* What a run of initialize_system meets: every constructor returns, or the
\* constructor of one component raises.
InitOutcomes == {"ok"} \cup {Components[i] : i \in DOMAIN Components}

\* The components constructed before the one that raised (all, if none did)
ConstructedIn(outcome) ==
    {Components[i] : i \in {j \in DOMAIN Components :
        outcome = "ok" \/ \E k \in DOMAIN Components : Components[k] = outcome /\ j < k}}

\* The script runs of one session.
MaxRuns == 6

\* The records a search stores: their titles.
FoundGrants == {[title |-> "Digital Equity Fund"], [title |-> "STEM Futures"], [title |-> ""]}

\* The values of the multiselect exercised: nothing selected, and its default.
Multiselects == {<<>>, <<"project_overview", "project_description">>}

\* What process_documents meets in its try block.
ProcessOutcomes == {"ok", "load_error", "index_error"}

\* A session that marks the documents processed whatever the outcome.
DocumentsProcessedAlways(outcome, flag) == TRUE

\* st.session_state.documents_processed = True, reached only when
\* load_grant_documents, get_chunked_content and index_documents returned
DocumentsProcessed(outcome, flag) == IF outcome = "ok" THEN TRUE ELSE flag

\* Nothing the generator was asked in a run.
NoCall == [op |-> "none"]

AppInit ==
    /\ upc = "session"
    /\ runs = 0
    /\ initialized = FALSE
    /\ constructed = [c \in {Components[i] : i \in DOMAIN Components} |-> 0]
    /\ init_failures = 0
    /\ documents_processed = FALSE
    /\ processed_once = FALSE
    /\ discovered_grants = [present |-> FALSE, grants |-> <<>>]
    /\ stored_nonempty = FALSE
    /\ generated_application = [present |-> FALSE, keys |-> <<>>]
    /\ appCall = NoCall
    /\ NormOff
    /\ GenOff
    /\ ChunkOff
    /\ ParseOff
    /\ LoadOff
    /\ FilterOff

\* A run while 'initialized' is not in the session state: initialize_system
\* constructs the components; on an exception it reports and stops the run
InitializeSystem ==
    /\ upc = "session"
    /\ runs < MaxRuns
    /\ ~initialized
    /\ \E outcome \in InitOutcomes :
          /\ constructed' = [c \in DOMAIN constructed |->
                               IF c \in ConstructedIn(outcome) THEN constructed[c] + 1
                               ELSE constructed[c]]
          /\ initialized' = (outcome = "ok")
          /\ init_failures' = IF outcome = "ok" THEN init_failures ELSE init_failures + 1
    /\ runs' = runs + 1
    /\ appCall' = NoCall
    /\ UNCHANGED <<upc, documents_processed, processed_once, discovered_grants,
                   stored_nonempty, generated_application>>
    /\ UNCHANGED <<normVars, genVars, chunkVars, parseVars, loadVars, filterVars>>

\* A run with "Process Grant Documents" pressed
ProcessDocuments ==
    /\ upc = "session"
    /\ runs < MaxRuns
    /\ initialized
    /\ \E outcome \in ProcessOutcomes :
          /\ documents_processed' = DocumentsProcessed(outcome, documents_processed)
          /\ processed_once' = (processed_once \/ outcome = "ok")
    /\ runs' = runs + 1
    /\ appCall' = NoCall
    /\ UNCHANGED <<upc, initialized, constructed, init_failures, discovered_grants,
                   stored_nonempty, generated_application>>
    /\ UNCHANGED <<normVars, genVars, chunkVars, parseVars, loadVars, filterVars>>

\* A run with "Search for Grants" pressed: search_all_sources returns a list,
\* which is stored, or raises
DiscoverGrants ==
    /\ upc = "session"
    /\ runs < MaxRuns
    /\ initialized
    /\ \/ \E grants \in SeqsUpTo(FoundGrants, MaxGrants) :
             /\ discovered_grants' = [present |-> TRUE, grants |-> grants]
             /\ stored_nonempty' = (stored_nonempty \/ grants # <<>>)
       \/ UNCHANGED <<discovered_grants, stored_nonempty>>
    /\ runs' = runs + 1
    /\ appCall' = NoCall
    /\ UNCHANGED <<upc, initialized, constructed, init_failures, documents_processed,
                   processed_once, generated_application>>
    /\ UNCHANGED <<normVars, genVars, chunkVars, parseVars, loadVars, filterVars>>

\* A run with "Generate Application Draft" pressed.  The button exists only
\* past the guard on discovered_grants and for a non-empty selected title;
\* the selected grant is the first of that title.
GenerateDraft ==
    /\ upc = "session"
    /\ runs < MaxRuns
    /\ initialized
    /\ discovered_grants.present /\ discovered_grants.grants # <<>>
    /\ \E i \in DOMAIN discovered_grants.grants, selected \in Multiselects, raised \in BOOLEAN :
          LET selected_title == discovered_grants.grants[i].title
              selected_grant ==
                  discovered_grants.grants[CHOOSE j \in DOMAIN discovered_grants.grants :
                      /\ discovered_grants.grants[j].title = selected_title
                      /\ \A k \in 1..(j - 1) : discovered_grants.grants[k].title # selected_title]
          IN  /\ selected_title # ""
              /\ IF ~documents_processed
                 THEN /\ appCall' = NoCall
                      /\ UNCHANGED generated_application
                 ELSE /\ appCall' = [op |-> "generate", grant |-> selected_grant,
                                     sections |-> selected, raised |-> raised]
                      /\ generated_application' =
                            IF raised THEN generated_application
                            ELSE [present |-> TRUE,
                                  keys |-> IF selected = <<>> THEN DefaultSections ELSE selected]
    /\ runs' = runs + 1
    /\ UNCHANGED <<upc, initialized, constructed, init_failures, documents_processed,
                   processed_once, discovered_grants, stored_nonempty>>
    /\ UNCHANGED <<normVars, genVars, chunkVars, parseVars, loadVars, filterVars>>

\* A run with "Refine Application" pressed; the button exists only past the
\* guard on generated_application
RefineDraft ==
    /\ upc = "session"
    /\ runs < MaxRuns
    /\ initialized
    /\ generated_application.present
    /\ \E fb \in Feedbacks \cup {""}, raised \in BOOLEAN :
          appCall' = IF fb = "" THEN NoCall
                     ELSE [op |-> "refine", application |-> generated_application.keys,
                           feedback |-> fb, raised |-> raised]
    /\ runs' = runs + 1
    /\ UNCHANGED <<upc, initialized, constructed, init_failures, documents_processed,
                   processed_once, discovered_grants, stored_nonempty, generated_application>>
    /\ UNCHANGED <<normVars, genVars, chunkVars, parseVars, loadVars, filterVars>>

AppNext ==
    \/ InitializeSystem
    \/ ProcessDocuments
    \/ DiscoverGrants
    \/ GenerateDraft
    \/ RefineDraft

-----------------------------------------------------------------------------
(* The Content Normalizer run on a raw text, and again on its own output.  *)

NormInit ==
    /\ npc = "input"
    /\ nText \in Texts
    /\ nOut = <<>>
    /\ nOut2 = <<>>
    /\ nPass = "all"
    /\ GenOff
    /\ ChunkOff
    /\ ParseOff
    /\ LoadOff
    /\ FilterOff
    /\ AppOff

\* _post_process_content(nText)
Normalize ==
    /\ npc = "input"
    /\ nOut' = PostProcessContent(nText)
    /\ npc' = "once"
    /\ UNCHANGED <<nText, nOut2, nPass>>
    /\ UNCHANGED <<genVars, chunkVars, parseVars, loadVars, filterVars, appVars>>

\* _post_process_content applied to its own output
NormalizeAgain ==
    /\ npc = "once"
    /\ nOut2' = PostProcessContent(nOut)
    /\ npc' = "twice"
    /\ UNCHANGED <<nText, nOut, nPass>>
    /\ UNCHANGED <<genVars, chunkVars, parseVars, loadVars, filterVars, appVars>>

NormNext == Normalize \/ NormalizeAgain

\* The passes of _post_process_content after the strip, in source order.
PassNames ==
    <<"emphasis", "bullets", "blank_lines", "punctuation_runs", "decimals",
      "period_before_punctuation", "space_before_punctuation", "space_before_capital",
      "space_after_sentence", "final_period">>

\* One pass of _post_process_content, run on its own.
ApplyPass(pass, s) ==
    CASE pass = "emphasis" -> StripItalic(StripBold(s))
      [] pass = "bullets" -> StripBullets(s)
      [] pass = "blank_lines" -> CollapseNewlines(s)
      [] pass = "punctuation_runs" -> CollapsePunctuation(s)
      [] pass = "decimals" -> JoinDecimals(s)
      [] pass = "period_before_punctuation" -> DropPeriodBeforePunct(s)
      [] pass = "space_before_punctuation" -> DropSpaceBeforePunct(s)
      [] pass = "space_before_capital" -> SpaceBeforeCapital(s)
      [] pass = "space_after_sentence" -> SingleSpaceAfterSentence(s)
      [] pass = "final_period" -> EnsureFinalPeriod(s)

PassInit ==
    /\ npc = "input"
    /\ nText \in Texts
    /\ nOut = <<>>
    /\ nOut2 = <<>>
    /\ nPass \in {PassNames[i] : i \in 1..Len(PassNames)}
    /\ GenOff
    /\ ChunkOff
    /\ ParseOff
    /\ LoadOff
    /\ FilterOff
    /\ AppOff

\* The pass nPass on the raw text
RunPass ==
    /\ npc = "input"
    /\ nOut' = ApplyPass(nPass, nText)
    /\ npc' = "once"
    /\ UNCHANGED <<nText, nOut2, nPass>>
    /\ UNCHANGED <<genVars, chunkVars, parseVars, loadVars, filterVars, appVars>>

\* The same pass on its own output
RunPassAgain ==
    /\ npc = "once"
    /\ nOut2' = ApplyPass(nPass, nOut)
    /\ npc' = "twice"
    /\ UNCHANGED <<nText, nOut, nPass>>
    /\ UNCHANGED <<genVars, chunkVars, parseVars, loadVars, filterVars, appVars>>

PassNext == RunPass \/ RunPassAgain

\* The Content Normalizer on every text of Texts.
SpecNorm == NormInit /\ [][NormNext]_vars

\* generate_application, then refine_application on its result.
SpecGen == GenInit /\ [][GenNext]_vars

\* get_chunked_content on every batch of documents.
\* One section generated against the larger collections.
SpecRetrieve == RetrieveInit /\ [][GenNext]_vars

SpecChunk == ChunkInit /\ [][ChunkNext]_vars

SpecWindows == WindowInit /\ [][ChunkNext]_vars

SpecParse == ParseInit /\ [][ParseNext]_vars

SpecLoad == LoadInit /\ [][LoadNext]_vars

SpecFilter == FilterInit /\ [][FilterNext]_vars

\* One session of the user interface.
SpecApp == AppInit /\ [][AppNext]_vars

\* Each pass of the Content Normalizer on every text of Texts.
SpecPass == PassInit /\ [][PassNext]_vars

-----------------------------------------------------------------------------
(* The claims about the Content Normalizer (SpecNorm).                     *)

\* s holds the character c twice in a row.
Doubled(s, c) == \E i \in 1..(Len(s) - 1) : s[i] = c /\ s[i + 1] = c

EndsSentence(s) == s # <<>> /\ s[Len(s)] \in SentenceEnd

\* C1: the Content Normalizer is idempotent on its own output:
\* normalize(normalize(t)) = normalize(t) for every text t.
C1_Idempotent == npc = "twice" => nOut2 = nOut

\* C2: the normalizer's output holds no two consecutive periods, no two
\* consecutive commas and no two consecutive hyphens.
C2_NoDoubledPunctuation ==
    npc \in {"once", "twice"} =>
        ~Doubled(nOut, ".") /\ ~Doubled(nOut, ",") /\ ~Doubled(nOut, "-")

\* C3 as stated: for every text, the empty and the whitespace-only ones
\* included, the normalizer's output ends in '.', '!' or '?'.
C3_AlwaysEndsSentence == npc \in {"once", "twice"} => EndsSentence(nOut)

\* C3 as amended: the normalizer's output is empty or ends in '.', '!' or
\* '?'; for the empty string and for whitespace-only text it is empty.
C3_EmptyOrEndsSentence ==
    npc \in {"once", "twice"} =>
        /\ nOut = <<>> \/ EndsSentence(nOut)
        /\ (\A i \in 1..Len(nText) : nText[i] \in Whitespace) => nOut = <<>>

\* A text that did not end a sentence got its period; the result is not empty.
C3_PeriodAppended ==
    /\ npc = "once"
    /\ nText # <<>>
    /\ nText[Len(nText)] \notin SentenceEnd \cup Whitespace
    /\ Len(nOut) >= 2
    /\ nOut[Len(nOut)] = "."
    /\ nOut[Len(nOut) - 1] = nText[Len(nText)]

-----------------------------------------------------------------------------
(* The claims about generate_application and refine_application (SpecGen). *)

\* The sections of the llm.chat calls of one operation, in call order.
CallSections(op) ==
    LET made == SelectSeq(llmCalls, LAMBDA c : c.op = op)
    IN  [i \in 1..Len(made) |-> made[i].section]

\* llm.chat was called for section s by operation op.
Called(op, s) == \E i \in 1..Len(llmCalls) : llmCalls[i].op = op /\ llmCalls[i].section = s

\* The last llm.chat call of operation op for section s.
LastCall(op, s) ==
    llmCalls[CHOOSE i \in 1..Len(llmCalls) :
                /\ llmCalls[i].op = op /\ llmCalls[i].section = s
                /\ \A j \in (i + 1)..Len(llmCalls) :
                      ~(llmCalls[j].op = op /\ llmCalls[j].section = s)]

\* The normalized form of each text the backend answers with.
Normalized == [t \in LlmTexts |-> PostProcessContent(t)]

Range1(f) == {f[i] : i \in DOMAIN f}

\* C4: when llm.chat fails for a requested section, generate_application
\* does not abort: the section's entry is the placeholder, the loop goes on,
\* and the entry of every other section is the normalized answer to its own
\* call, whatever happened to the failing one.  (A section listed twice
\* keeps the entry of its last occurrence.)
C4_FailureIsolated ==
    /\ gError # "generation"
    /\ gpc \in {"examples", "voice", "chat", "raised"} =>
          Range1(DictKeys(application)) = Range1(SubSeq(sections, 1, idx - 1))
    /\ gpc \in {"returned", "refine_chat", "refined"} =>
          Range1(DictKeys(application)) = Range1(sections)
    /\ \A i \in 1..Len(application) :
          LET s == application[i].key
              call == LastCall("generate", s)
          IN  /\ Called("generate", s)
              /\ application[i].value =
                    IF call.failed THEN ErrorPlaceholder(s) ELSE Normalized[call.answer]

\* generate_application returned a draft in which one section holds the
\* placeholder of its failed call and another the normalized answer of its own.
C4_OneFailedOtherIntact ==
    /\ gpc = "returned"
    /\ \E i, j \in 1..Len(application) :
          /\ i # j
          /\ LastCall("generate", application[i].key).failed
          /\ application[i].value = ErrorPlaceholder(application[i].key)
          /\ ~LastCall("generate", application[j].key).failed
          /\ application[j].value = <<"O", "k", ".", " ", "G", "o", ".">>

\* C5: no error is fatal to a draft: whatever the opportunity record holds and
\* whatever the Retrieval Index and the backend do, generate_application does
\* not raise, and the mapping it returns has an entry for every section.
C5_NeverFatal ==
    /\ gpc # "raised"
    /\ gpc = "returned" => Range1(DictKeys(application)) = Range1(sections)

\* C6: no automatic retry: generate_application and refine_application call
\* the backend exactly once per section processed, in the order of the
\* sections, a failed call included.
C6_OneCallPerSection ==
    /\ gpc = "idle" => llmCalls = <<>>
    /\ gpc \in {"examples", "voice", "chat", "raised"} =>
          /\ CallSections("generate") = SubSeq(sections, 1, idx - 1)
          /\ CallSections("refine") = <<>>
    /\ gpc = "returned" =>
          /\ CallSections("generate") = sections
          /\ CallSections("refine") = <<>>
    /\ gpc = "refine_chat" =>
          /\ CallSections("generate") = sections
          /\ CallSections("refine") = SubSeq(DictKeys(application), 1, idx - 1)
    /\ gpc = "refined" =>
          /\ CallSections("generate") = sections
          /\ CallSections("refine") = DictKeys(application)

\* Both loops ran to their end with a failed call in each, and the backend
\* was called once per section all the same.
C6_FailedCallsNotRepeated ==
    /\ gpc = "refined"
    /\ Len(sections) >= 2
    /\ \E i \in 1..Len(llmCalls) : llmCalls[i].op = "generate" /\ llmCalls[i].failed
    /\ \E i \in 1..Len(llmCalls) : llmCalls[i].op = "refine" /\ llmCalls[i].failed
    /\ Len(llmCalls) = Len(sections) + Len(application)

\* The generation path of C7: the entry of a section whose call failed is the
\* placeholder.
GenerationFailureGivesPlaceholder ==
    \A i \in 1..Len(application) :
        LET s == application[i].key
        IN  Called("generate", s) /\ LastCall("generate", s).failed
                => application[i].value = ErrorPlaceholder(s)

\* C7 as stated: a failed backend call is answered with the placeholder string
\* for that section, on the refinement path as on the generation path.
C7_PlaceholderOnBothPaths ==
    /\ GenerationFailureGivesPlaceholder
    /\ \A i \in 1..Len(refined) :
          LET s == refined[i].key
          IN  LastCall("refine", s).failed => refined[i].value = ErrorPlaceholder(s)

\* C7 as amended: on the generation path the content of a section whose
\* backend call failed is the placeholder string; on the refinement path it
\* is the content the section had before refinement, unchanged.
C7_PlaceholderOrOriginal ==
    /\ GenerationFailureGivesPlaceholder
    /\ \A i \in 1..Len(refined) :
          LET s == refined[i].key
          IN  LastCall("refine", s).failed => refined[i].value = DictValue(application, s)

\* A section was generated, its refinement failed, and it kept its generated
\* content; another section's generation failed.
C7_RefineFailureKeepsContent ==
    /\ gpc = "refined"
    /\ \E i \in 1..Len(refined) :
          LET s == refined[i].key
          IN  /\ LastCall("refine", s).failed
              /\ ~LastCall("generate", s).failed
              /\ refined[i].value = <<"O", "k", ".", " ", "G", "o", ".">>
    /\ \E i \in 1..Len(application) :
          LastCall("generate", application[i].key).failed

\* The distinct elements of a list, each at its first occurrence
RECURSIVE FirstOccurrences(_)
FirstOccurrences(list) ==
    IF list = <<>> THEN <<>>
    ELSE LET front == FirstOccurrences(SubSeq(list, 1, Len(list) - 1))
             last == list[Len(list)]
         IN  IF \E i \in 1..Len(front) : front[i] = last THEN front ELSE Append(front, last)

\* C22: the draft generate_application returns for an absent or an empty
\* section list is not empty: its keys are the six default sections, in the
\* order project_overview, organizational_background, project_description,
\* intended_outcomes, implementation_plan, sustainability_plan; for a
\* non-empty list its keys are the distinct requested section types, each at
\* its first occurrence.
C22_DefaultSectionsOrRequested ==
    gpc \in {"returned", "refine_chat", "refined"} =>
        /\ (~requested.given \/ requested.list = <<>>) =>
              DictKeys(application) =
                  <<"project_overview", "organizational_background", "project_description",
                    "intended_outcomes", "implementation_plan", "sustainability_plan">>
        /\ (requested.given /\ requested.list # <<>>) =>
              DictKeys(application) = FirstOccurrences(requested.list)

\* generate_application was given an empty list and returned six sections.
C22_EmptyListSixSections ==
    /\ gpc = "returned"
    /\ requested.given
    /\ requested.list = <<>>
    /\ Len(application) = 6

-----------------------------------------------------------------------------
(* The claims about get_chunked_content (SpecChunk).                       *)

\* The positions in chunks of the chunks of document d (by its filename).
ChunksOfDoc(d) == {i \in 1..Len(chunks) : chunks[i].metadata.source = documents[d].filename}

\* The positions in chunks of the chunks of section k of document d.
ChunksOfSection(d, k) ==
    {i \in ChunksOfDoc(d) : chunks[i].metadata.section = documents[d].sections[k].key}

\* The sections read so far, as <<document, section>> positions.
SectionsSeen == {<<d, k>> \in (1..Len(documents)) \X (1..MaxSections) :
                    k <= Len(documents[d].sections)}

SectionTextAt(d, k) == documents[d].sections[k].value

\* ceil(a / b) for a >= 0, b > 0
CeilDiv(a, b) == (a + b - 1) \div b

\* C8: a section whose text exceeds the chunk threshold T yields exactly
\* ceil(word_count / (T/6)) chunks, for every positive T.  (T/6 is read as
\* the quotient, so the count is ceil(6 * word_count / T).)
C8_SplitCount ==
    \A p \in SectionsSeen :
        LET text == SectionTextAt(p[1], p[2])
        IN  Len(text) > chunkSize =>
                Cardinality(ChunksOfSection(p[1], p[2]))
                    = CeilDiv(6 * Len(Split(text)), chunkSize)

\* C9: a section whose text is at most the threshold long yields exactly one
\* chunk, holding the whole text and tagged "full"; a section is split (it
\* has no "full" chunk) only when its text is strictly longer.
C9_ShortSectionOneFullChunk ==
    \A p \in SectionsSeen :
        LET text == SectionTextAt(p[1], p[2])
            doc == documents[p[1]]
            name == doc.sections[p[2]].key
            full == doc.filename \o "_" \o name \o "_full"
            own == ChunksOfSection(p[1], p[2])
        IN  /\ Len(text) <= chunkSize =>
                 /\ Cardinality(own) = 1
                 /\ \A i \in own : chunks[i].text = text
                                   /\ chunks[i].metadata.chunk_id = full
            /\ Len(text) > chunkSize =>
                 \A i \in own : chunks[i].metadata.chunk_id # full

\* A section exactly as long as the threshold was kept whole, and a section
\* one character longer was split.
C9_AtThresholdKeptWhole ==
    /\ cpc = "returned"
    /\ \E p, q \in SectionsSeen :
          /\ Len(SectionTextAt(p[1], p[2])) = chunkSize
          /\ Cardinality(ChunksOfSection(p[1], p[2])) = 1
          /\ Len(SectionTextAt(q[1], q[2])) = chunkSize + 1
          /\ Cardinality(ChunksOfSection(q[1], q[2])) >= 2

\* C10: the chunk identifiers of the chunks of one document are pairwise
\* distinct, and the number of chunks of the document is the sum, over its
\* sections, of the number of chunks of each section.
RECURSIVE SumOverSections(_, _)
SumOverSections(d, k) ==
    IF k = 0 THEN 0
    ELSE Cardinality(ChunksOfSection(d, k)) + SumOverSections(d, k - 1)

C10_ChunkIdsUniqueAndCounted ==
    \A d \in 1..Len(documents) :
        /\ \A i, j \in ChunksOfDoc(d) :
              i # j => chunks[i].metadata.chunk_id # chunks[j].metadata.chunk_id
        /\ Cardinality(ChunksOfDoc(d)) = SumOverSections(d, Len(documents[d].sections))

\* A document of two sections, one of them split, has been chunked.
C10_TwoSectionsOneSplit ==
    /\ cpc = "returned"
    /\ \E d \in 1..Len(documents) :
          /\ Len(documents[d].sections) = 2
          /\ Cardinality(ChunksOfSection(d, 1)) >= 2
          /\ Cardinality(ChunksOfSection(d, 2)) = 1
          /\ Cardinality(ChunksOfDoc(d)) >= 3

\* C11: the Chunker has no failure path: for every list of parsed documents
\* and every positive chunk-size threshold get_chunked_content returns
\* without raising, and for an empty document list it returns no chunk.
C11_ChunkerNeverRaises ==
    /\ cpc # "raised"
    /\ (cpc = "returned" /\ documents = <<>>) => chunks = <<>>

\* The elements of a set of positions, in ascending order
RECURSIVE Ascending(_)
Ascending(S) ==
    IF S = {} THEN <<>>
    ELSE LET least == CHOOSE x \in S : \A y \in S : x <= y
         IN  <<least>> \o Ascending(S \ {least})

\* The elements of the sequences of a sequence, one after the other
RECURSIVE Flattened(_)
Flattened(seqs) ==
    IF seqs = <<>> THEN <<>> ELSE seqs[1] \o Flattened(Tail(seqs))

\* <<d, k>> is read before <<e, l>>
ReadBefore(p, q) == p[1] < q[1] \/ (p[1] = q[1] /\ p[2] < q[2])

\* C21: with a threshold T of at least 6, the chunks of a split section, in
\* the order of the list get_chunked_content returns, hold the section's
\* words exactly once and in order: every chunk but the last holds floor(T/6) words, the last holds between 1 and
\* floor(T/6), the k-th starts at word (k-1)*floor(T/6); the chunks of a
\* section read earlier come before those of a section read later.  The
\* windows depend on the words and the threshold alone, not on the
\* configured overlap.
C21_WindowsPartitionWords ==
    (cpc = "returned" /\ chunkSize >= 6) =>
        \A window \in {chunkSize \div 6} :
        \A owned \in {[p \in SectionsSeen |-> Ascending(ChunksOfSection(p[1], p[2]))]} :
            /\ \A p \in SectionsSeen :
                  Len(SectionTextAt(p[1], p[2])) > chunkSize =>
                      \A own \in {owned[p]} :
                      \A held \in {[k \in 1..Len(own) |-> Split(chunks[own[k]].text)]} :
                          /\ Flattened(held) = Split(SectionTextAt(p[1], p[2]))
                          /\ \A k \in 1..(Len(own) - 1) : Len(held[k]) = window
                          /\ own # <<>> => Len(held[Len(own)]) \in 1..window
                          /\ \A k \in 1..Len(own) :
                                chunks[own[k]].metadata.chunk_id =
                                    documents[p[1]].filename \o "_"
                                        \o documents[p[1]].sections[p[2]].key \o "_"
                                        \o ToString((k - 1) * window)
            /\ \A p, q \in SectionsSeen :
                  (ReadBefore(p, q) /\ owned[p] # <<>> /\ owned[q] # <<>>) =>
                      owned[p][Len(owned[p])] < owned[q][1]

\* A section of three words was split into a window of two words and a last
\* window of one, and the chunks of a second split section follow them.
C21_ShortLastWindow ==
    /\ cpc = "returned"
    /\ chunkSize \div 6 = 2
    /\ \E p, q \in SectionsSeen :
          /\ ReadBefore(p, q)
          /\ Len(SectionTextAt(p[1], p[2])) > chunkSize
          /\ Len(Split(SectionTextAt(p[1], p[2]))) = 3
          /\ Cardinality(ChunksOfSection(p[1], p[2])) = 2
          /\ Len(SectionTextAt(q[1], q[2])) > chunkSize
          /\ Cardinality(ChunksOfSection(q[1], q[2])) = 2

-----------------------------------------------------------------------------
(* The claims about retrieval and the prompts (SpecGen).                   *)

\* The latest search_similar call found no index built: get_existing_index
\* gave none, or the collection holds no chunk.
NoIndexBuilt == lastSearch.called /\ (~lastSearch.index \/ collection = <<>>)

\* C12: when no index has been built (zero indexed chunks, or the existing
\* index cannot be obtained) search_similar returns an empty sequence and
\* does not raise; the context and voice excerpt lists are then empty and
\* generation proceeds to the backend call.
C12_NoIndexGivesEmpty ==
    NoIndexBuilt =>
        /\ ~lastSearch.raised
        /\ lastSearch.results = <<>>
        /\ gpc \in {"voice", "chat"}
        /\ gpc = "voice" => examples = <<>>
        /\ gpc = "chat" => voice = <<>> /\ messages.user.voice = <<>>

-----------------------------------------------------------------------------
(* The claims about the Format Classifier and the parsers (SpecParse).     *)

FormatTags == {"AWS Grant", "BRL Catalyst", "AI for Economic Empowerment", "General Grant"}

\* C13: the Format Classifier is total with a fixed priority: every
\* identifier gets exactly one tag, that of the first marker it contains in
\* the order "AWS", "BRL", "AI for Economic", else General, whatever the raw
\* text is.
C13_ClassifierPriority ==
    ppc = "parsed" =>
        LET a == Contains(pFilename, MarkerAWS)
            b == Contains(pFilename, MarkerBRL)
            c == Contains(pFilename, MarkerAIEconomic)
        IN  /\ pDoc.grant_type \in FormatTags
            /\ a => pDoc.grant_type = "AWS Grant"
            /\ (~a /\ b) => pDoc.grant_type = "BRL Catalyst"
            /\ (~a /\ ~b /\ c) => pDoc.grant_type = "AI for Economic Empowerment"
            /\ (~a /\ ~b /\ ~c) => pDoc.grant_type = "General Grant"

\* An identifier in which the B marker stands before the A marker was tagged A.
C13_LaterMarkerWins ==
    /\ ppc = "parsed"
    /\ pFilename = PrefixDATA \o Underscore \o MarkerBRL \o Underscore \o MarkerAWS
    /\ pContent # <<>>
    /\ pDoc.grant_type = "AWS Grant"

\* The rule of pattern k of _parse_aws_format matches the text: its opening
\* phrase occurs in it.
RuleMatches(k, text) == \E i \in 1..Len(text) : text[i] \in AwsPatterns[k].phrases

\* C14: a document whose identifier contains the A marker is parsed by the
\* structured strategy: a section name is in the mapping exactly when its
\* rule matches, and when no rule matches the result is a document with an
\* empty section mapping, its voice signature and its raw text.
C14_StructuredSectionsOptional ==
    (ppc = "parsed" /\ Contains(pFilename, MarkerAWS)) =>
        /\ \A i \in 1..Len(pDoc.sections) :
              \E k \in 1..Len(AwsPatterns) : pDoc.sections[i].key = AwsPatterns[k].key
        /\ \A k \in 1..Len(AwsPatterns) :
              RuleMatches(k, pContent)
                 <=> \E i \in 1..Len(pDoc.sections) : pDoc.sections[i].key = AwsPatterns[k].key
        /\ (\A k \in 1..Len(AwsPatterns) : ~RuleMatches(k, pContent)) =>
              /\ pDoc.sections = <<>>
              /\ pDoc.filename = pFilename
              /\ pDoc.grant_type = "AWS Grant"
              /\ pDoc.full_content = pContent
              /\ pDoc.organizational_voice = ExtractOrganizationalVoice(pContent)

\* A document with the A marker and two lines of text, none of them opening a
\* rule, was parsed to no section; its voice signature holds the program name.
C14_NoRuleMatchedNoSection ==
    /\ ppc = "parsed"
    /\ Contains(pFilename, MarkerAWS)
    /\ pContent = <<"a", "\n", "Journey">>
    /\ pDoc.sections = <<>>
    /\ pDoc.full_content = pContent
    /\ pDoc.organizational_voice.program_names = << <<"Journey">> >>

\* The non-blank pieces of a text split on sep, in encounter order.
NonBlankPieces(text, sep) == SelectSeq(SplitOn(text, sep), LAMBDA piece : StripText(piece) # <<>>)

\* The sections are exactly prefix_0 ... prefix_{n-1}, the k-th of them the
\* cleaned k-th piece.
NamedInOrder(doc_sections, prefix, pieces) ==
    /\ Len(doc_sections) = Len(pieces)
    /\ \A k \in 1..Len(pieces) :
          /\ doc_sections[k].key = prefix \o ToString(k - 1)
          /\ doc_sections[k].value = CleanText(pieces[k])

-----------------------------------------------------------------------------
(* The claim about the single passes of the Content Normalizer (SpecPass). *)

-----------------------------------------------------------------------------
(* The claim about load_grant_documents (SpecLoad).                        *)

\* The files of the listing the loop could read: whitelisted, and read
\* without an exception (as UTF-8 or, failing that, as cp1252).
Readable == SelectSeq(listing, LAMBDA f : Whitelisted(f.stem) /\ f.read # "error")

\* C17: in load_grant_documents a read, decoding or parsing failure on one
\* whitelisted document is caught and only that document is skipped: the call
\* does not raise, and every other whitelisted document that can be read is
\* in the batch exactly once (in listing order, parsed from what was read).
C17_FailedDocumentSkipped ==
    /\ lpc # "raised"
    /\ Len(loaded) = Len(Readable)
    /\ \A k \in 1..Len(Readable) :
          /\ loaded[k].filename = Readable[k].stem
          /\ loaded[k].full_content = Readable[k].content
    /\ \A i \in 1..Len(listing) :
          Cardinality({k \in 1..Len(loaded) : loaded[k].filename = listing[i].stem})
             = IF Whitelisted(listing[i].stem) /\ listing[i].read # "error" THEN 1 ELSE 0

\* The batch was returned: the read of a whitelisted file failed, a file
\* listed after it was loaded, as was one that did not decode as UTF-8.
C17_LoadedPastFailure ==
    /\ lpc = "returned"
    /\ \E i, j \in 1..Len(listing) :
          /\ i < j
          /\ Whitelisted(listing[i].stem) /\ listing[i].read = "error"
          /\ listing[j].read = "cp1252"
          /\ \E k \in 1..Len(loaded) : loaded[k].filename = listing[j].stem
    /\ \E i \in 1..Len(listing) : ~Whitelisted(listing[i].stem)

-----------------------------------------------------------------------------
(* The claims about the Prompt Composer (SpecGen).                         *)

\* The opportunity record has neither an amount nor focus areas.
LacksAmountAndFocus == "amount" \notin DOMAIN opp /\ "focus_areas" \notin DOMAIN opp

\* C18: an opportunity record without amount and focus_areas still gets a
\* user prompt: _get_relevant_examples composes its query with an empty
\* joined string for the focus areas, _build_user_prompt writes "Not
\* specified" for the amount and an empty joined string for the focus areas,
\* and neither fails for the missing fields (if the section's generation
\* raises, it is the retriever that raised).
C18_MissingFieldsNotSpecified ==
    (gpc \in {"voice", "chat", "raised"} /\ LacksAmountAndFocus) =>
        /\ lastSearch.top_k = 3 =>
              lastSearch.query = <<opp.title, " ", " ", Spaced(sections[idx])>>
        /\ gpc = "chat" =>
              /\ messages.user.amount = "Not specified"
              /\ messages.user.focus_areas = <<>>
              /\ messages.user.title = opp.title
              /\ messages.user.section = Spaced(sections[idx])
        /\ gpc = "raised" => lastSearch.raised /\ gError = "retrieval"

\* The prompt of a section was composed for a record that names its
\* organization but neither an amount nor focus areas.
C18_PromptWithoutOptionalFields ==
    /\ gpc = "chat"
    /\ LacksAmountAndFocus
    /\ "organization" \in DOMAIN opp
    /\ messages.user.organization = opp.organization
    /\ messages.user.amount = "Not specified"
    /\ messages.user.focus_areas = <<>>


\* A keyword is found in a record when it occurs, whatever the case, in the
\* title, in the description or in one of the focus areas.
FoundInFields(grant, keyword) ==
    \/ Contains(Lower(Get(grant, "title", <<>>)), Lower(keyword))
    \/ Contains(Lower(Get(grant, "description", <<>>)), Lower(keyword))
    \/ \E i \in DOMAIN Get(grant, "focus_areas", <<>>) :
           Contains(Lower(grant.focus_areas[i]), Lower(keyword))

HitCount(grant) ==
    Cardinality({k \in DOMAIN DefaultFocusAreas : FoundInFields(grant, DefaultFocusAreas[k])})

\* The record as it was before the filter annotated it
Unscored(grant) == [k \in DOMAIN grant \ {"relevance_score"} |-> grant[k]]

Occurrences(grants, grant) == Cardinality({i \in DOMAIN grants : grants[i] = grant})

\* C19: the filter returns exactly the records whose count of keywords found
\* in title, description or focus areas is at least 2, each annotated with
\* that count as its relevance score, in order of non-increasing score; a
\* record with fewer than 2 hits is never among the records handed on.
C19_ExactlyRecordsWithTwoHits ==
    fpc = "filtered" =>
        /\ \A g \in DiscoveredGrants :
               Occurrences([i \in DOMAIN relevantGrants |-> Unscored(relevantGrants[i])], g)
                   = IF HitCount(g) >= 2 THEN Occurrences(allGrants, g) ELSE 0
        /\ \A i \in DOMAIN relevantGrants :
               relevantGrants[i].relevance_score = HitCount(Unscored(relevantGrants[i]))
        /\ \A i \in DOMAIN relevantGrants : \A j \in DOMAIN relevantGrants :
               i < j => relevantGrants[i].relevance_score >= relevantGrants[j].relevance_score


\* The texts of the results that have one, in the order of the results
KeptTexts(results) ==
    LET kept == SelectSeq(results, LAMBDA r : r.text # "")
    IN  [i \in 1..Len(kept) |-> kept[i].text]

\* The first n elements of xs, or all of xs when it has fewer
Front(xs, n) == [i \in 1..Min(n, Len(xs)) |-> xs[i]]

\* C20: the context search asks for 3 matches and the voice search for 10;
\* only results with a non-empty text are kept, in retrieval order; the user
\* prompt holds the first 2 (at most) of the kept context texts and the
\* first 3 (at most) of the kept voice texts.
C20_TopMatchesKeptFromFront ==
    /\ gpc = "voice" =>
          /\ lastSearch.called
          /\ lastSearch.top_k = 3
          /\ Len(lastSearch.results) <= 3
          /\ examples = KeptTexts(lastSearch.results)
    /\ gpc = "chat" =>
          /\ lastSearch.called
          /\ lastSearch.top_k = 10
          /\ Len(lastSearch.results) <= 10
          /\ voice = KeptTexts(lastSearch.results)
          /\ messages.user.examples = Front(examples, 2)
          /\ messages.user.voice = Front(voice, 3)
          /\ Len(messages.user.examples) <= 2
          /\ Len(messages.user.voice) <= 3

\* Three context texts and four voice texts were kept, the last ones differ
\* from the first ones, and the prompt was composed.
C20_ExcerptsLeftOut ==
    /\ gpc = "chat"
    /\ Len(examples) = 3
    /\ Len(voice) = 4
    /\ examples[3] # examples[1]
    /\ voice[4] # voice[1]
    /\ Len(messages.user.examples) = 2
    /\ Len(messages.user.voice) = 3


-----------------------------------------------------------------------------
(* The claim about the user interface (SpecApp).                           *)

\* The generator is asked for a draft only in an initialized session in
\* which a search has stored a non-empty list and the documents have been
\* loaded, chunked and indexed without error; it is asked to refine only a
\* stored draft, with non-empty feedback.
CallsAreGuarded ==
    /\ appCall.op = "generate" =>
          /\ initialized
          /\ stored_nonempty
          /\ discovered_grants.present /\ discovered_grants.grants # <<>>
          /\ processed_once
    /\ appCall.op = "refine" =>
          /\ initialized
          /\ generated_application.present
          /\ appCall.application = generated_application.keys
          /\ appCall.feedback # ""

\* C23 as stated: in every sequence of runs of a session the calls of the
\* generator are guarded as above, and every component is constructed at
\* most once.
C23_GuardedAndConstructedOnce ==
    upc = "session" =>
        /\ CallsAreGuarded
        /\ \A c \in DOMAIN constructed : constructed[c] <= 1

\* C23 as amended: the calls of the generator are guarded as above; a
\* component is constructed at most once in the run whose initialization
\* succeeds and at most once in each run whose initialization failed, and
\* never after the initialization has succeeded.
C23_GuardedAndConstructedPerAttempt ==
    upc = "session" =>
        /\ CallsAreGuarded
        /\ \A c \in DOMAIN constructed :
              constructed[c] <= init_failures + (IF initialized THEN 1 ELSE 0)
        /\ initialized => \A c \in DOMAIN constructed : constructed[c] >= 1

\* An initialization failed after the processor was constructed, the next one
\* succeeded, and after processing, a search and a draft the generator was
\* asked to refine.
C23_RefinedAfterFailedInit ==
    /\ upc = "session"
    /\ init_failures = 1
    /\ constructed["doc_processor"] = 2
    /\ constructed["generator"] = 1
    /\ appCall.op = "refine"

====
